---------------------------- MODULE Spec2Model ----------------------------
(***************************************************************************)
(* A model of the order-execution and risk core of quantum-liquidity:      *)
(* PositionManager, RiskManager, ExecutionEngine and the MockBroker        *)
(* provider (src/cpp/src/execution, src/cpp/src/risk).                     *)
(*                                                                         *)
(* Every C++ double is an exact rational <<n, d>> (d > 0, lowest terms).   *)
(* Wall-clock time is a tick counter; one tick is 30 s, so the rate        *)
(* limiter's one minute is OneMinute = 2 ticks.  Log calls and the         *)
(* last_update / timestamp fields that no decision reads are left out.     *)
(***************************************************************************)
EXTENDS Integers, Sequences, FiniteSets, TLC

(***************************************************************************)
(* Bounds of the model                                                     *)
(***************************************************************************)
MaxTime == 3
MaxOps == 3
MaxRiskCalls == 5
MaxCalls == 3
MaxFills == 3

(***************************************************************************)
(* Exact arithmetic standing in for double                                 *)
(***************************************************************************)
Abs(x) == IF x < 0 THEN -x ELSE x

RECURSIVE GCD(_, _)
GCD(a, b) == IF b = 0 THEN a ELSE GCD(b, a % b)

Norm(n, d) ==
    LET g == GCD(Abs(n), Abs(d))
        s == IF d < 0 THEN -1 ELSE 1
    IN  <<(s * n) \div g, (s * d) \div g>>

R(i) == <<i, 1>>
Zero == R(0)
\* Sums, products and quotients reduce before they multiply, so that the
\* intermediate values stay within TLC's integers.
RAdd(a, b) ==
    LET g == GCD(a[2], b[2])
    IN  Norm(a[1] * (b[2] \div g) + b[1] * (a[2] \div g), (a[2] \div g) * b[2])
RNeg(a) == <<-a[1], a[2]>>
RSub(a, b) == RAdd(a, RNeg(b))
RMul(a, b) ==
    LET g1 == GCD(Abs(a[1]), b[2])
        g2 == GCD(Abs(b[1]), a[2])
    IN  Norm((a[1] \div g1) * (b[1] \div g2), (a[2] \div g2) * (b[2] \div g1))
RDiv(a, b) == RMul(a, IF b[1] < 0 THEN <<-b[2], -b[1]>> ELSE <<b[2], b[1]>>)
RAbs(a) == <<Abs(a[1]), a[2]>>
RLt(a, b) == a[1] * b[2] < b[1] * a[2]
RLe(a, b) == a[1] * b[2] <= b[1] * a[2]
RGt(a, b) == RLt(b, a)
RGe(a, b) == RLe(b, a)
RMin(a, b) == IF RLe(a, b) THEN a ELSE b

\* The 1e-8 tolerance of position_manager.cpp, execution_engine.cpp and
\* mock_broker.cpp, compared without multiplying by 10^8.
EpsDen == 100000000
LeEps(x) == x[1] <= x[2] \div EpsDen
GtEps(x) == ~LeEps(x)
AbsLtEps(x) == Abs(x[1]) <= (x[2] - 1) \div EpsDen

\* std::to_string(double): "%f", six decimals, rounded; rendered here as the
\* number of millionths.
ToString6(x) ==
    LET m == (2 * Abs(x[1]) * 1000000 + x[2]) \div (2 * x[2])
    IN  ToString(IF x[1] < 0 THEN -m ELSE m)

(***************************************************************************)
(* Domain types (execution/types.hpp)                                      *)
(***************************************************************************)
OrderSide == {"BUY", "SELL"}
OrderType == {"MARKET", "LIMIT", "STOP", "STOP_LIMIT"}
OrderStatus == {"PENDING", "SUBMITTED", "ACKNOWLEDGED", "PARTIALLY_FILLED",
                "FILLED", "CANCELLED", "REJECTED", "ERROR", "EXPIRED"}
TerminalStatus == {"FILLED", "CANCELLED", "REJECTED", "ERROR", "EXPIRED"}

Instruments == {"EURUSD"}
OrderIds == {"O1", "O2"}

OrderRequest(id, ins, side, type, qty, price) ==
    [order_id |-> id, instrument |-> ins, side |-> side, type |-> type,
     quantity |-> qty, price |-> price]

Fill(id, ins, side, qty, price, comm) ==
    [order_id |-> id, instrument |-> ins, side |-> side,
     quantity |-> qty, price |-> price, commission |-> comm]

\* The limits the managers are configured with (RiskLimits).
limits ==
    [max_position_size |-> R(3), max_total_exposure |-> R(8),
     max_order_size |-> R(2), max_daily_loss |-> R(2),
     max_drawdown_from_high |-> R(1), max_orders_per_minute |-> 2,
     max_orders_per_day |-> 3, bankroll |-> R(10),
     min_free_capital_pct |-> <<1, 10>>]

\* 60LL * 1000000000LL ns, in ticks of 30 s.
OneMinute == 2

\* pm, rm   the PositionManager and the RiskManager
\* now      the system clock, in ticks
\* ret      the latest call: its name, arguments and return value
\* approved the timestamps of the approvals since the last reset_daily, and
\* approved_ever those of all approvals (history, read by no operation)
\* nops     the number of calls made so far
\* eng, mb   the ExecutionEngine and the MockBroker registered with it
\* order_cb, fill_cb   what the registered order and fill callbacks received
\* used     the order ids submitted so far (ids are unique within a run)
\* lk       the threads and mutexes of LockSpec
\* net      per instrument, the sum of the signed quantities of the fills
\*          PosSpec has passed to the PositionManager (history, read by no
\*          operation)
VARIABLES pm, rm, now, ret, approved, approved_ever, nops,
          eng, mb, order_cb, fill_cb, used, lk, net

vars == <<pm, rm, now, ret, approved, approved_ever, nops,
          eng, mb, order_cb, fill_cb, used, lk, net>>

riskvars == <<pm, rm, now, approved, approved_ever>>
corevars == <<eng, mb, order_cb, fill_cb, used>>
datavars == <<pm, rm, now, ret, approved, approved_ever, nops,
              eng, mb, order_cb, fill_cb, used, net>>

\* Sum of f over the finite set S.
RECURSIVE RSum(_, _)
RSum(f, S) ==
    IF S = {} THEN Zero
    ELSE LET x == CHOOSE y \in S : TRUE
         IN  RAdd(f[x], RSum(f, S \ {x}))

(***************************************************************************)
(* PositionManager (execution/position_manager.cpp)                        *)
(***************************************************************************)
PMInit ==
    [positions_ |-> <<>>, total_realized_pnl_ |-> Zero, total_fills_today_ |-> 0]


\* The side ignored.
SignedQty_unsigned(side, qty) == qty

SignedQty(side, qty) == IF side = "BUY" THEN qty ELSE RNeg(qty)


\* The plain mean of the two prices, whatever the quantities.
calculate_weighted_avg_price_mean(current_qty, current_entry, fill_qty, fill_price) ==
    IF AbsLtEps(RAdd(current_qty, fill_qty)) THEN Zero
    ELSE RDiv(RAdd(current_entry, fill_price), R(2))

calculate_weighted_avg_price(current_qty, current_entry, fill_qty, fill_price) ==
    IF AbsLtEps(RAdd(current_qty, fill_qty)) THEN Zero
    ELSE RDiv(RAdd(RMul(current_qty, current_entry), RMul(fill_qty, fill_price)),
              RAdd(current_qty, fill_qty))


\* The long formula used for shorts as well.
calculate_realized_pnl_long(position_qty, entry_price, fill_qty, fill_price) ==
    LET qty_to_close == RMin(RAbs(position_qty), RAbs(fill_qty))
        reducing == RLt(RMul(position_qty, fill_qty), Zero)
    IN  IF ~reducing THEN Zero
        ELSE RMul(qty_to_close, RSub(fill_price, entry_price))

\* The whole fill closed, however small the position.
calculate_realized_pnl_fill(position_qty, entry_price, fill_qty, fill_price) ==
    LET qty_to_close == RAbs(fill_qty)
        reducing == RLt(RMul(position_qty, fill_qty), Zero)
    IN  IF ~reducing THEN Zero
        ELSE IF RGt(position_qty, Zero)
             THEN RMul(qty_to_close, RSub(fill_price, entry_price))
             ELSE RMul(qty_to_close, RSub(entry_price, fill_price))

calculate_realized_pnl(position_qty, entry_price, fill_qty, fill_price) ==
    LET qty_to_close == RMin(RAbs(position_qty), RAbs(fill_qty))
        reducing == RLt(RMul(position_qty, fill_qty), Zero)
    IN  IF ~reducing THEN Zero
        ELSE IF RGt(position_qty, Zero)
             THEN RMul(qty_to_close, RSub(fill_price, entry_price))
             ELSE RMul(qty_to_close, RSub(entry_price, fill_price))

PM_on_fill(p, fill) ==
    LET signed_fill_qty == SignedQty(fill.side, fill.quantity)
        ins == fill.instrument
    IN  IF ins \notin DOMAIN p.positions_
        THEN [p EXCEPT
                !.total_fills_today_ = @ + 1,
                !.positions_ = [i \in DOMAIN @ \cup {ins} |->
                    IF i = ins
                    THEN [quantity |-> signed_fill_qty, entry_price |-> fill.price,
                          realized_pnl |-> Zero, num_fills_today |-> 1,
                          total_commission |-> fill.commission]
                    ELSE @[i]]]
        ELSE
          LET pos == p.positions_[ins]
              same_direction == RGt(RMul(pos.quantity, signed_fill_qty), Zero)
          IN  IF same_direction \/ pos.quantity = Zero
              THEN [p EXCEPT
                      !.total_fills_today_ = @ + 1,
                      !.positions_[ins] = [pos EXCEPT
                          !.entry_price = calculate_weighted_avg_price(
                              pos.quantity, pos.entry_price, signed_fill_qty, fill.price),
                          !.quantity = RAdd(@, signed_fill_qty),
                          !.num_fills_today = @ + 1,
                          !.total_commission = RAdd(@, fill.commission)]]
              ELSE
                LET realized == calculate_realized_pnl(
                        pos.quantity, pos.entry_price, signed_fill_qty, fill.price)
                    old_qty == pos.quantity
                    new_qty == RAdd(pos.quantity, signed_fill_qty)
                    reversed == (RGt(old_qty, Zero) /\ RLt(new_qty, Zero))
                                \/ (RLt(old_qty, Zero) /\ RGt(new_qty, Zero))
                IN  [p EXCEPT
                      !.total_fills_today_ = @ + 1,
                      !.total_realized_pnl_ = RAdd(@, realized),
                      !.positions_[ins] = [pos EXCEPT
                          !.realized_pnl = RAdd(@, realized),
                          !.quantity = new_qty,
                          !.entry_price = IF reversed THEN fill.price ELSE @,
                          !.num_fills_today = @ + 1,
                          !.total_commission = RAdd(@, fill.commission)]]

get_quantity(p, ins) ==
    IF ins \in DOMAIN p.positions_ THEN p.positions_[ins].quantity ELSE Zero

get_total_realized_pnl(p) == p.total_realized_pnl_

\* Instruments that contribute to the mark-to-market sums: a non-flat
\* position with a price in the snapshot.
Marked(p, prices) ==
    {i \in DOMAIN p.positions_ :
        ~AbsLtEps(p.positions_[i].quantity) /\ i \in DOMAIN prices}

get_total_unrealized_pnl(p, prices) ==
    RSum([i \in Marked(p, prices) |->
            RMul(p.positions_[i].quantity,
                 RSub(prices[i], p.positions_[i].entry_price))],
         Marked(p, prices))

get_total_exposure(p, prices) ==
    RSum([i \in Marked(p, prices) |->
            RAbs(RMul(p.positions_[i].quantity, prices[i]))],
         Marked(p, prices))


\* A reset that flattens the positions as well.
PM_reset_daily_flat(p) ==
    [p EXCEPT
        !.total_realized_pnl_ = Zero,
        !.total_fills_today_ = 0,
        !.positions_ = [i \in DOMAIN @ |->
            [@[i] EXCEPT !.realized_pnl = Zero, !.num_fills_today = 0,
                         !.total_commission = Zero, !.quantity = Zero]]]

PM_reset_daily(p) ==
    [p EXCEPT
        !.total_realized_pnl_ = Zero,
        !.total_fills_today_ = 0,
        !.positions_ = [i \in DOMAIN @ |->
            [@[i] EXCEPT !.realized_pnl = Zero, !.num_fills_today = 0,
                         !.total_commission = Zero]]]


(***************************************************************************)
(* RiskManager (risk/risk_manager.cpp)                                     *)
(***************************************************************************)
NoReason == <<>>

RMInit ==
    [daily_pnl_ |-> Zero, daily_high_pnl_ |-> Zero, daily_realized_pnl_ |-> Zero,
     orders_submitted_today_ |-> 0, orders_filled_today_ |-> 0,
     orders_rejected_today_ |-> 0, orders_cancelled_today_ |-> 0,
     halt_active_ |-> FALSE, halt_reason_ |-> NoReason,
     recent_order_timestamps_ |-> <<>>, reserved_by_order_ |-> <<>>,
     market_prices_ |-> <<>>]

calculate_order_value(order, price) == RAbs(RMul(order.quantity, price))


\* The position gate switched off.
check_position_size_limit_off(new_qty) == TRUE


\* The position gate with < in place of <=.
check_position_size_limit_lt(new_qty) == RLt(RAbs(new_qty), limits.max_position_size)

check_position_size_limit(new_qty) == RLe(RAbs(new_qty), limits.max_position_size)

total_reserved(r) == RSum(r.reserved_by_order_, DOMAIN r.reserved_by_order_)

check_exposure_limit(r, p, additional_exposure) ==
    LET current_exposure == get_total_exposure(p, r.market_prices_)
        new_total_exposure ==
            RAdd(RAdd(current_exposure, total_reserved(r)), additional_exposure)
    IN  RLe(new_total_exposure, limits.max_total_exposure)

\* A sign slip: the loss is compared as a gain.
check_daily_loss_limit_sign(r) == RGe(RNeg(r.daily_pnl_), RNeg(limits.max_daily_loss))

check_daily_loss_limit(r) == RGe(r.daily_pnl_, RNeg(limits.max_daily_loss))

\* The timestamps check_rate_limit keeps: those not older than one minute.
EvictOld(ts, now_ns) == SelectSeq(ts, LAMBDA t : ~(now_ns - t > OneMinute))

\* An off-by-one: <= in place of <.
check_rate_limit_le(r, now_ns) ==
    LET kept == EvictOld(r.recent_order_timestamps_, now_ns)
    IN  [rm |-> [r EXCEPT !.recent_order_timestamps_ = kept],
         ok |-> Len(kept) <= limits.max_orders_per_minute]

\* check_rate_limit: evicts, then compares the size; returns the new state
\* and the verdict.
check_rate_limit(r, now_ns) ==
    LET kept == EvictOld(r.recent_order_timestamps_, now_ns)
    IN  [rm |-> [r EXCEPT !.recent_order_timestamps_ = kept],
         ok |-> Len(kept) < limits.max_orders_per_minute]

RiskCheckResult(allowed, reason, reserved, exposure, size) ==
    [allowed |-> allowed, reason |-> reason, reserved_capital |-> reserved,
     new_exposure |-> exposure, new_position_size |-> size]


\* A denial that is counted as a submission as well.
Deny_counts(r, reason, size) ==
    [rm |-> [r EXCEPT !.orders_rejected_today_ = @ + 1,
                      !.orders_submitted_today_ = @ + 1],
     result |-> RiskCheckResult(FALSE, reason, Zero, Zero, size)]

\* A denial: orders_rejected_today_++ and return.
Deny(r, reason, size) ==
    [rm |-> [r EXCEPT !.orders_rejected_today_ = @ + 1],
     result |-> RiskCheckResult(FALSE, reason, Zero, Zero, size)]

check_order(r, p, order, current_price, now_ns) ==
    LET rl == check_rate_limit(r, now_ns)
        r4 == rl.rm
        order_price == IF order.type = "MARKET" THEN current_price ELSE order.price
        order_value == calculate_order_value(order, order_price)
        current_qty == get_quantity(p, order.instrument)
        signed_order_qty == SignedQty(order.side, order.quantity)
        new_qty == RAdd(current_qty, signed_order_qty)
        size == RAbs(new_qty)
        additional_exposure == RAbs(RMul(signed_order_qty, order_price))
        total_exposure == get_total_exposure(p, r4.market_prices_)
        used_capital == RAdd(RAdd(total_exposure, total_reserved(r4)), order_value)
        free_capital == RSub(limits.bankroll, used_capital)
        min_free == RMul(limits.bankroll, limits.min_free_capital_pct)
    IN  IF r.halt_active_
        THEN Deny(r, <<"Trading halted: ">> \o r.halt_reason_, Zero)
        ELSE IF RLe(order.quantity, Zero)
        THEN Deny(r, <<"Invalid quantity: must be > 0">>, Zero)
        ELSE IF order.type = "LIMIT" /\ RLe(order.price, Zero)
        THEN Deny(r, <<"Invalid limit price: must be > 0">>, Zero)
        ELSE IF RGt(order.quantity, limits.max_order_size)
        THEN Deny(r, <<"Order size exceeds limit: ", ToString6(order.quantity),
                        " > ", ToString6(limits.max_order_size)>>, Zero)
        ELSE IF ~rl.ok
        THEN Deny(r4, <<"Order rate limit exceeded: ",
                         ToString(limits.max_orders_per_minute), " orders/min">>, Zero)
        ELSE IF r4.orders_submitted_today_ >= limits.max_orders_per_day
        THEN Deny(r4, <<"Daily order limit exceeded: ",
                         ToString(limits.max_orders_per_day)>>, Zero)
        ELSE IF ~check_position_size_limit(new_qty)
        THEN Deny(r4, <<"Position size limit exceeded: new_qty=", ToString6(new_qty),
                         ", limit=", ToString6(limits.max_position_size)>>, size)
        ELSE IF ~check_exposure_limit(r4, p, additional_exposure)
        THEN Deny(r4, <<"Exposure limit exceeded: would add ",
                         ToString6(additional_exposure), ", limit=",
                         ToString6(limits.max_total_exposure)>>, size)
        ELSE IF ~check_daily_loss_limit(r4)
        THEN LET reason == <<"Daily loss limit exceeded: ", ToString6(r4.daily_pnl_),
                              ", limit=", ToString6(RNeg(limits.max_daily_loss))>>
             IN  Deny([r4 EXCEPT !.halt_active_ = TRUE, !.halt_reason_ = reason],
                      reason, size)
        ELSE IF RLt(free_capital, min_free)
        THEN Deny(r4, <<"Insufficient free capital: ", ToString6(free_capital),
                         " < ", ToString6(min_free)>>, size)
        ELSE [rm |-> [r4 EXCEPT
                        !.reserved_by_order_ =
                            [o \in DOMAIN @ \cup {order.order_id} |->
                                IF o = order.order_id THEN order_value ELSE @[o]],
                        !.orders_submitted_today_ = @ + 1,
                        !.recent_order_timestamps_ = Append(@, now_ns)],
              result |-> RiskCheckResult(TRUE, <<"OK">>, order_value,
                                         RAdd(total_exposure, order_value), size)]

\* reserved_by_order_.erase(order_id), when present.
Release(r, id) ==
    [r EXCEPT !.reserved_by_order_ = [o \in DOMAIN @ \ {id} |-> @[o]]]


\* The refresh without the unrealized part.
update_pnl_realized(r, p) ==
    [r EXCEPT !.daily_pnl_ = get_total_realized_pnl(p)]

update_pnl(r, p) ==
    [r EXCEPT !.daily_pnl_ = RAdd(get_total_realized_pnl(p),
                                  get_total_unrealized_pnl(p, r.market_prices_))]

\* The halt flag recomputed from the drawdown instead of only raised.
DrawdownHalt_recompute(r) ==
    LET drawdown_from_high == RSub(r.daily_high_pnl_, r.daily_pnl_)
    IN  [r EXCEPT !.halt_active_ =
                      RGt(drawdown_from_high, limits.max_drawdown_from_high),
                  !.halt_reason_ = <<"Max drawdown from high exceeded: ",
                                     ToString6(drawdown_from_high)>>]

\* The drawdown check at the end of on_fill.
DrawdownHalt(r) ==
    LET drawdown_from_high == RSub(r.daily_high_pnl_, r.daily_pnl_)
    IN  IF RGt(drawdown_from_high, limits.max_drawdown_from_high)
        THEN [r EXCEPT !.halt_active_ = TRUE,
                       !.halt_reason_ = <<"Max drawdown from high exceeded: ",
                                          ToString6(drawdown_from_high)>>]
        ELSE r

RM_on_fill(r, p, fill) ==
    LET r1 == Release([r EXCEPT !.orders_filled_today_ = @ + 1], fill.order_id)
        r2 == update_pnl(r1, p)
        r3 == IF RGt(r2.daily_pnl_, r2.daily_high_pnl_)
              THEN [r2 EXCEPT !.daily_high_pnl_ = r2.daily_pnl_]
              ELSE r2
    IN  DrawdownHalt(r3)

\* on_order_rejected that only counts.
on_order_rejected_counted(r, id) ==
    [r EXCEPT !.orders_rejected_today_ = @ + 1]

on_order_rejected(r, id) ==
    Release([r EXCEPT !.orders_rejected_today_ = @ + 1], id)

on_order_cancelled(r, id) ==
    Release([r EXCEPT !.orders_cancelled_today_ = @ + 1], id)

should_halt(r) == r.halt_active_

get_halt_reason(r) == IF r.halt_active_ THEN r.halt_reason_ ELSE NoReason

RM_reset_daily(r) ==
    [r EXCEPT
        !.daily_pnl_ = Zero, !.daily_high_pnl_ = Zero, !.daily_realized_pnl_ = Zero,
        !.orders_submitted_today_ = 0, !.orders_filled_today_ = 0,
        !.orders_rejected_today_ = 0, !.orders_cancelled_today_ = 0,
        !.recent_order_timestamps_ = <<>>, !.reserved_by_order_ = <<>>,
        !.halt_active_ = FALSE, !.halt_reason_ = NoReason]

update_market_prices(r, p, prices) ==
    update_pnl([r EXCEPT !.market_prices_ = prices], p)


(***************************************************************************)
(* MockBroker (execution/providers/mock_broker.cpp)                        *)
(***************************************************************************)
\* A field of a result that the code returns without having written it.
Indeterminate == <<0, 0>>

OrderUpdate(id, status, filled, remaining, avg, reason) ==
    [order_id |-> id, status |-> status, filled_qty |-> filled,
     remaining_qty |-> remaining, avg_fill_price |-> avg, reason |-> reason]

\* The MockBroker::Config the broker is built with.
broker_config ==
    [broker_name |-> "MockBroker", rejection_rate |-> <<1, 10>>,
     enable_partial_fills |-> TRUE, partial_fill_count |-> 2,
     slippage_bps |-> Zero, auto_connect |-> TRUE]

\* mutex_ is "free" or the order id of the fill thread that holds it across
\* its fill loop; fill_threads_ maps an order id to its thread: sleeping
\* (latency not yet elapsed), running (inside the loop, before iteration i)
\* or done.
MBInit ==
    [connected_ |-> broker_config.auto_connect, shutdown_requested_ |-> FALSE,
     orders_ |-> <<>>, market_prices_ |-> <<>>, next_fill_id_ |-> 1,
     fill_threads_ |-> <<>>, mutex_ |-> "free"]

Put(f, k, v) == [x \in DOMAIN f \cup {k} |-> IF x = k THEN v ELSE f[x]]
Drop(f, k) == [x \in DOMAIN f \ {k} |-> f[x]]

\* roll: whether uniform_dist_(rng_) fell below rejection_rate.
should_reject(roll) ==
    IF RLe(broker_config.rejection_rate, Zero) THEN FALSE
    ELSE IF RGe(broker_config.rejection_rate, R(1)) THEN TRUE
    ELSE roll

MB_submit_order(b, order, roll) ==
    LET base == OrderUpdate(order.order_id, "REJECTED", Zero, order.quantity,
                            Zero, <<>>)
    IN  IF should_reject(roll)
        THEN [mb |-> b,
              result |-> [base EXCEPT !.reason = <<"Random rejection (simulated)">>]]
        ELSE IF RLe(order.quantity, Zero)
        THEN [mb |-> b, result |-> [base EXCEPT !.reason = <<"Invalid quantity">>]]
        ELSE IF order.type = "LIMIT" /\ RLe(order.price, Zero)
        THEN [mb |-> b, result |-> [base EXCEPT !.reason = <<"Invalid limit price">>]]
        ELSE
          LET result == [base EXCEPT !.status = "ACKNOWLEDGED",
                                     !.reason = <<"Order accepted by mock broker">>]
              state == [request |-> order, current_status |-> result,
                        filled_qty |-> Zero, remaining_qty |-> order.quantity,
                        cancelled |-> FALSE]
          IN  [mb |-> [b EXCEPT
                        !.orders_ = Put(@, order.order_id, state),
                        !.fill_threads_ =
                            IF ~b.shutdown_requested_
                            THEN Put(@, order.order_id, [pc |-> "sleeping"])
                            ELSE @],
               result |-> result]

\* cancel_order without the cancelled flag.
MB_cancel_order_unflagged(b, order_id) ==
    IF order_id \notin DOMAIN b.orders_
       \/ b.orders_[order_id].current_status.status \in {"FILLED", "CANCELLED", "REJECTED"}
    THEN [mb |-> b,
          result |-> OrderUpdate(order_id, "REJECTED", Indeterminate, Indeterminate,
                                 Indeterminate, <<"Order not found">>)]
    ELSE [mb |-> [b EXCEPT !.orders_[order_id].current_status.status = "CANCELLED"],
          result |-> OrderUpdate(order_id, "CANCELLED", b.orders_[order_id].filled_qty,
                                 b.orders_[order_id].remaining_qty,
                                 b.orders_[order_id].current_status.avg_fill_price,
                                 <<"Order cancelled">>)]

\* cancel_order reporting nothing left of the order.
MB_cancel_order_spent(b, order_id) ==
    IF order_id \notin DOMAIN b.orders_
       \/ b.orders_[order_id].current_status.status \in {"FILLED", "CANCELLED", "REJECTED"}
    THEN [mb |-> b,
          result |-> OrderUpdate(order_id, "REJECTED", Indeterminate, Indeterminate,
                                 Indeterminate, <<"Order not found">>)]
    ELSE [mb |-> [b EXCEPT !.orders_[order_id].cancelled = TRUE,
                           !.orders_[order_id].current_status.status = "CANCELLED"],
          result |-> OrderUpdate(order_id, "CANCELLED", b.orders_[order_id].filled_qty,
                                 Zero,
                                 b.orders_[order_id].current_status.avg_fill_price,
                                 <<"Order cancelled">>)]

MB_cancel_order(b, order_id) ==
    IF order_id \notin DOMAIN b.orders_
    THEN [mb |-> b,
          result |-> OrderUpdate(order_id, "REJECTED", Indeterminate, Indeterminate,
                                 Indeterminate, <<"Order not found">>)]
    ELSE
      LET state == b.orders_[order_id]
      IN  IF state.current_status.status \in {"FILLED", "CANCELLED", "REJECTED"}
          THEN [mb |-> b,
                result |-> OrderUpdate(order_id, state.current_status.status,
                              state.current_status.filled_qty,
                              state.current_status.remaining_qty,
                              state.current_status.avg_fill_price,
                              <<"Order already in terminal state">>)]
          ELSE [mb |-> [b EXCEPT
                          !.orders_[order_id].cancelled = TRUE,
                          !.orders_[order_id].current_status.status = "CANCELLED",
                          !.orders_[order_id].current_status.reason =
                              <<"Cancelled by user">>],
                result |-> OrderUpdate(order_id, "CANCELLED", state.filled_qty,
                              state.remaining_qty,
                              state.current_status.avg_fill_price,
                              <<"Order cancelled">>)]

\* modify_order.  An absent std::optional is <<>>, a present one <<value>>.
MB_modify_order(b, modification) ==
    LET order_id == modification.order_id
    IN  IF order_id \notin DOMAIN b.orders_
        THEN [mb |-> b,
              result |-> OrderUpdate(order_id, "REJECTED", Indeterminate,
                                     Indeterminate, Indeterminate,
                                     <<"Order not found">>)]
        ELSE
          LET state == b.orders_[order_id]
              request == [state.request EXCEPT
                  !.price = IF modification.new_price # <<>>
                            THEN modification.new_price[1] ELSE @,
                  !.quantity = IF modification.new_quantity # <<>>
                               THEN modification.new_quantity[1] ELSE @]
              remaining_qty == IF modification.new_quantity # <<>>
                               THEN RSub(modification.new_quantity[1], state.filled_qty)
                               ELSE state.remaining_qty
              result == OrderUpdate(order_id, "ACKNOWLEDGED", state.filled_qty,
                                    remaining_qty,
                                    state.current_status.avg_fill_price,
                                    <<"Modification accepted">>)
          IN  [mb |-> [b EXCEPT !.orders_[order_id] =
                          [state EXCEPT !.request = request,
                                        !.remaining_qty = remaining_qty,
                                        !.current_status = result]],
               result |-> result]

calculate_fill_price(order, market_price) ==
    LET base_price == IF order.type = "MARKET" THEN market_price ELSE order.price
        slippage_factor == RDiv(broker_config.slippage_bps, R(10000))
    IN  IF RGt(broker_config.slippage_bps, Zero)
        THEN IF order.side = "BUY"
             THEN RMul(base_price, RAdd(R(1), slippage_factor))
             ELSE RMul(base_price, RSub(R(1), slippage_factor))
        ELSE base_price

\* simulate_fill from the lock to the loop: the thread returns when the
\* broker is shut down or the order cancelled, else it enters the loop with
\* its locals and keeps mutex_.
Sim_enter(b, order_id) ==
    LET state == b.orders_[order_id]
        market_price ==
            IF state.request.instrument \in DOMAIN b.market_prices_
            THEN b.market_prices_[state.request.instrument]
            ELSE IF state.request.type = "MARKET" THEN R(100)
                 ELSE state.request.price
        num_fills == IF broker_config.enable_partial_fills
                     THEN broker_config.partial_fill_count ELSE 1
    IN  IF b.shutdown_requested_ \/ order_id \notin DOMAIN b.orders_
           \/ state.cancelled
        THEN [b EXCEPT !.fill_threads_[order_id] = [pc |-> "done"]]
        ELSE [b EXCEPT
                !.mutex_ = order_id,
                !.fill_threads_[order_id] =
                    [pc |-> "running", i |-> 0, num_fills |-> num_fills,
                     market_price |-> market_price,
                     qty_per_fill |-> RDiv(state.remaining_qty, R(num_fills))]]

\* The loop condition of simulate_fill.
Sim_continues(b, order_id) ==
    LET t == b.fill_threads_[order_id]
        state == b.orders_[order_id]
    IN  /\ t.pc = "running"
        /\ t.i < t.num_fills
        /\ GtEps(state.remaining_qty)
        /\ ~state.cancelled

\* The fill that the next iteration of the loop generates.
Sim_fill(b, order_id) ==
    LET t == b.fill_threads_[order_id]
        state == b.orders_[order_id]
        fill_qty == IF t.i = t.num_fills - 1 THEN state.remaining_qty
                    ELSE t.qty_per_fill
    IN  Fill(order_id, state.request.instrument, state.request.side, fill_qty,
             calculate_fill_price(state.request, t.market_price),
             RMul(fill_qty, <<1, 10000>>))

\* The broker's bookkeeping of one iteration, up to the call of the engine.
Sim_book(b, order_id) ==
    LET state == b.orders_[order_id]
        fill == Sim_fill(b, order_id)
        filled_qty == RAdd(state.filled_qty, fill.quantity)
        remaining_qty == RSub(state.remaining_qty, fill.quantity)
        total_value == RAdd(RMul(state.current_status.avg_fill_price,
                                 RSub(filled_qty, fill.quantity)),
                            RMul(fill.price, fill.quantity))
    IN  [b EXCEPT
            !.next_fill_id_ = @ + 1,
            !.orders_[order_id] = [state EXCEPT
                !.filled_qty = filled_qty,
                !.remaining_qty = remaining_qty,
                !.current_status = [@ EXCEPT
                    !.avg_fill_price = RDiv(total_value, filled_qty),
                    !.filled_qty = filled_qty,
                    !.remaining_qty = remaining_qty,
                    !.status = IF LeEps(remaining_qty) THEN "FILLED"
                               ELSE "PARTIALLY_FILLED"]],
            !.fill_threads_[order_id].i = @ + 1]

\* The end of an iteration: the thread leaves the loop, and releases mutex_,
\* when the loop condition fails.
Sim_leave(b, order_id) ==
    IF Sim_continues(b, order_id) THEN b
    ELSE [b EXCEPT !.mutex_ = "free", !.fill_threads_[order_id] = [pc |-> "done"]]

\* disconnect() up to the joins: the flags.  Sleeping threads then find
\* shutdown_requested_ and return.
MB_disconnect(b) ==
    IF ~b.connected_ THEN b
    ELSE [b EXCEPT
            !.shutdown_requested_ = TRUE,
            !.connected_ = FALSE,
            !.fill_threads_ = [o \in DOMAIN @ |->
                IF @[o].pc = "sleeping" THEN [pc |-> "done"] ELSE @[o]]]

(***************************************************************************)
(* ExecutionEngine (execution/execution_engine.cpp)                        *)
(***************************************************************************)
\* completed_orders_.size() > 1000
HistoryCap == 1000

\* The ids of HistoryCap orders of earlier days: "P1000", "P1001", ...
OldIds == {"P" \o ToString(k) : k \in HistoryCap..(2 * HistoryCap - 1)}

\* The order of std::map<std::string, ...> keys: "O1" < "O2" < "P1000" < ...
IdRank == [o \in OrderIds \cup OldIds |->
            IF o \in OrderIds
            THEN CHOOSE k \in 1..Cardinality(OrderIds) : o = "O" \o ToString(k)
            ELSE CHOOSE k \in HistoryCap..(2 * HistoryCap - 1) :
                     o = "P" \o ToString(k)]

ENGInit ==
    [providers_ |-> {broker_config.broker_name},
     default_provider_ |-> broker_config.broker_name,
     instrument_routing_ |-> <<>>,
     active_orders_ |-> <<>>, completed_orders_ |-> <<>>,
     stats_ |-> [total_orders_submitted |-> 0, total_orders_filled |-> 0,
                 total_orders_rejected |-> 0, total_orders_cancelled |-> 0,
                 active_orders |-> 0, total_volume_traded |-> Zero],
     shutdown_requested_ |-> FALSE, mutex_ |-> "free"]

select_provider_for_order(e, order) ==
    IF order.instrument \in DOMAIN e.instrument_routing_
    THEN e.instrument_routing_[order.instrument]
    ELSE e.default_provider_

\* finalize_order that copies the entry to the history and keeps it active.
finalize_order_copied(e, order_id) ==
    IF order_id \notin DOMAIN e.active_orders_ THEN e
    ELSE [e EXCEPT
            !.completed_orders_ = Put(@, order_id, e.active_orders_[order_id]),
            !.stats_.active_orders = @ - 1]

finalize_order(e, order_id) ==
    IF order_id \notin DOMAIN e.active_orders_ THEN e
    ELSE
      LET completed == Put(e.completed_orders_, order_id, e.active_orders_[order_id])
          oldest == CHOOSE o \in DOMAIN completed :
                        \A o2 \in DOMAIN completed : IdRank[o] <= IdRank[o2]
      IN  [e EXCEPT
            !.completed_orders_ =
                IF Cardinality(DOMAIN completed) > HistoryCap
                THEN Drop(completed, oldest) ELSE completed,
            !.active_orders_ = Drop(@, order_id),
            !.stats_.active_orders = @ - 1]

\* get_order_status: the std::optional is <<>> or <<the status>>.
get_order_status(e, order_id) ==
    IF order_id \in DOMAIN e.active_orders_
    THEN <<e.active_orders_[order_id].current_status>>
    ELSE IF order_id \in DOMAIN e.completed_orders_
    THEN <<e.completed_orders_[order_id].current_status>>
    ELSE <<>>

update_order_state(e, update) ==
    IF update.order_id \notin DOMAIN e.active_orders_ THEN e
    ELSE
      LET e1 == [e EXCEPT !.active_orders_[update.order_id].current_status = update]
      IN  IF update.status \in {"FILLED", "CANCELLED", "REJECTED", "ERROR", "EXPIRED"}
          THEN finalize_order(e1, update.order_id)
          ELSE e1

\* The loop with a second callback that is never told of acknowledgements.
Notify_unacknowledged(delivered, event, thrown) ==
    IF "status" \in DOMAIN event /\ event.status = "ACKNOWLEDGED"
    THEN delivered ELSE Append(delivered, event)

\* The loop over the registered callbacks, each call in a try block that
\* catches std::exception.  Two callbacks are registered for orders and two
\* for fills: the first throws what thrown says ("none": it returns), the
\* second appends the event to delivered.  An exception that is not a
\* std::exception leaves the loop and the handler.
Notify(delivered, event, thrown) ==
    IF thrown = "other" THEN delivered ELSE Append(delivered, event)

\* The state of the whole core, as the handlers pass it along: the engine e,
\* the managers r and p, the broker b and the updates and fills delivered to
\* the registered order and fill callbacks, and the handler's return value.
World(e, r, p, b, ocb, fcb) ==
    [eng |-> e, rm |-> r, pm |-> p, mb |-> b, order_cb |-> ocb, fill_cb |-> fcb,
     result |-> <<>>, thrown |-> "none", escaped |-> FALSE]

\* The rejection without the call of on_order_rejected.
SubmitRejected_reserved(w, r, order, reason) ==
    [w EXCEPT
        !.eng.stats_.total_orders_rejected = @ + 1,
        !.rm = r,
        !.result = OrderUpdate(order.order_id, "REJECTED", Zero, order.quantity,
                               Zero, reason)]

\* A rejection of submit_order before the provider is called: no callback.
SubmitRejected(w, r, order, reason) ==
    [w EXCEPT
        !.eng.stats_.total_orders_rejected = @ + 1,
        !.rm = on_order_rejected(r, order.order_id),
        !.result = OrderUpdate(order.order_id, "REJECTED", Zero, order.quantity,
                               Zero, reason)]

\* submit_order that runs the risk check before it looks at shutdown_requested_.
ENG_submit_order_checked(w0, order, now_ns, roll, raises) ==
    [w0 EXCEPT
        !.rm = check_order(w0.rm, w0.pm, order, R(1), now_ns).rm,
        !.eng.stats_.total_orders_rejected = @ + 1,
        !.result = OrderUpdate(order.order_id, "REJECTED", Zero, order.quantity,
                               Zero, <<"Execution engine shutting down">>)]

\* submit_order.  raises: the provider's submit_order throws a std::exception
\* (the lock of its mutex_ fails with std::system_error).
ENG_submit_order(w0, order, now_ns, roll, raises) ==
    LET w == [w0 EXCEPT !.result = OrderUpdate(order.order_id, "REJECTED", Zero,
                                               order.quantity, Zero, <<>>)]
        current_price0 == IF order.type = "MARKET" THEN Zero ELSE order.price
        current_price == IF current_price0 = Zero THEN R(1) ELSE current_price0
        c == check_order(w.rm, w.pm, order, current_price, now_ns)
        provider_name == select_provider_for_order(w.eng, order)
        sub == MB_submit_order(w.mb, order, roll)
    IN  IF w.eng.shutdown_requested_
        THEN [w EXCEPT !.eng.stats_.total_orders_rejected = @ + 1,
                       !.result.reason = <<"Execution engine shutting down">>]
        ELSE IF ~c.result.allowed
        THEN SubmitRejected(w, c.rm, order,
                            <<"Risk check failed: ">> \o c.result.reason)
        ELSE IF provider_name = "" \/ provider_name \notin w.eng.providers_
        THEN SubmitRejected(w, c.rm, order,
                            <<"No execution provider available for ",
                              order.instrument>>)
        ELSE IF ~w.mb.connected_
        THEN SubmitRejected(w, c.rm, order,
                            <<"Provider not connected: ", provider_name>>)
        ELSE IF raises
        THEN [w EXCEPT
                !.rm = on_order_rejected(c.rm, order.order_id),
                !.eng.stats_.total_orders_rejected = @ + 1,
                !.order_cb = Notify(@, [w.result EXCEPT
                    !.status = "ERROR", !.reason = <<"Provider exception: ">>], w.thrown),
                !.escaped = w.thrown = "other",
                !.result = [@ EXCEPT
                    !.status = "ERROR", !.reason = <<"Provider exception: ">>]]
        ELSE IF sub.result.status # "REJECTED"
        THEN [w EXCEPT
                !.rm = c.rm,
                !.mb = sub.mb,
                !.eng.active_orders_ = Put(@, order.order_id,
                    [request |-> order, current_status |-> sub.result,
                     provider_name |-> provider_name]),
                !.eng.stats_.total_orders_submitted = @ + 1,
                !.eng.stats_.active_orders = @ + 1,
                !.order_cb = Notify(@, sub.result, w.thrown),
                !.escaped = w.thrown = "other",
                !.result = sub.result]
        ELSE [w EXCEPT
                !.rm = on_order_rejected(c.rm, order.order_id),
                !.mb = sub.mb,
                !.eng.stats_.total_orders_rejected = @ + 1,
                !.order_cb = Notify(@, sub.result, w.thrown),
                !.escaped = w.thrown = "other",
                !.result = sub.result]

\* cancel_order.  raises: the provider's cancel_order throws.
ENG_cancel_order(w, order_id, raises) ==
    LET can == MB_cancel_order(w.mb, order_id)
        unset == OrderUpdate(order_id, "REJECTED", Indeterminate, Indeterminate,
                             Indeterminate, <<>>)
    IN  IF order_id \notin DOMAIN w.eng.active_orders_
        THEN [w EXCEPT !.result =
                [unset EXCEPT !.reason = <<"Order not found or already completed">>]]
        ELSE IF w.eng.active_orders_[order_id].provider_name \notin w.eng.providers_
        THEN [w EXCEPT !.result =
                [unset EXCEPT !.reason = <<"Provider not available: ",
                    w.eng.active_orders_[order_id].provider_name>>]]
        ELSE IF raises
        THEN [w EXCEPT
                !.order_cb = Notify(@, [unset EXCEPT
                    !.status = "ERROR", !.reason = <<"Cancel exception: ">>], w.thrown),
                !.escaped = w.thrown = "other",
                !.result = [unset EXCEPT
                    !.status = "ERROR", !.reason = <<"Cancel exception: ">>]]
        ELSE IF can.result.status = "CANCELLED"
        THEN [w EXCEPT
                !.mb = can.mb,
                !.rm = on_order_cancelled(@, order_id),
                !.eng = finalize_order(
                    [@ EXCEPT !.stats_.total_orders_cancelled = @ + 1], order_id),
                !.order_cb = Notify(@, can.result, w.thrown),
                !.escaped = w.thrown = "other",
                !.result = can.result]
        ELSE [w EXCEPT
                !.mb = can.mb,
                !.order_cb = Notify(@, can.result, w.thrown),
                !.escaped = w.thrown = "other",
                !.result = can.result]

\* modify_order.  raises: the provider's modify_order throws.
ENG_modify_order(w, modification, raises) ==
    LET order_id == modification.order_id
        mod == MB_modify_order(w.mb, modification)
        unset == OrderUpdate(order_id, "REJECTED", Indeterminate, Indeterminate,
                             Indeterminate, <<>>)
    IN  IF order_id \notin DOMAIN w.eng.active_orders_
        THEN [w EXCEPT !.result =
                [unset EXCEPT !.reason = <<"Order not found or already completed">>]]
        ELSE IF w.eng.active_orders_[order_id].provider_name \notin w.eng.providers_
        THEN [w EXCEPT !.result =
                [unset EXCEPT !.reason = <<"Provider not available: ",
                    w.eng.active_orders_[order_id].provider_name>>]]
        ELSE IF raises
        THEN [w EXCEPT !.result = [unset EXCEPT
                !.status = "ERROR", !.reason = <<"Modify exception: ">>]]
        ELSE [w EXCEPT !.mb = mod.mb, !.result = mod.result]

\* on_fill.
ENG_on_fill(w, fill) ==
    LET p1 == PM_on_fill(w.pm, fill)
        r1 == RM_on_fill(w.rm, p1, fill)
        e1 == [w.eng EXCEPT
                 !.stats_.total_orders_filled = @ + 1,
                 !.stats_.total_volume_traded = RAdd(@, fill.quantity)]
        state == e1.active_orders_[fill.order_id]
        filled_qty == RAdd(state.current_status.filled_qty, fill.quantity)
        remaining_qty == RSub(state.request.quantity, filled_qty)
        total_value == RAdd(RMul(state.current_status.avg_fill_price,
                                 RSub(filled_qty, fill.quantity)),
                            RMul(fill.price, fill.quantity))
        e2 == [e1 EXCEPT !.active_orders_[fill.order_id].current_status =
                 [@ EXCEPT !.filled_qty = filled_qty,
                           !.remaining_qty = remaining_qty,
                           !.avg_fill_price = RDiv(total_value, filled_qty),
                           !.status = IF LeEps(remaining_qty) THEN "FILLED"
                                      ELSE "PARTIALLY_FILLED"]]
        e3 == IF fill.order_id \notin DOMAIN e1.active_orders_ THEN e1
              ELSE IF LeEps(remaining_qty) THEN finalize_order(e2, fill.order_id)
              ELSE e2
    IN  [w EXCEPT !.pm = p1, !.rm = r1, !.eng = e3,
                  !.fill_cb = Notify(@, fill, w.thrown),
                  !.escaped = w.thrown = "other"]

\* on_order_update.
ENG_on_order_update(w, update) ==
    [w EXCEPT !.eng = update_order_state(@, update),
              !.order_cb = Notify(@, update, w.thrown),
              !.escaped = w.thrown = "other"]


\* shutdown().  With orders active it calls cancel_order, which locks the
\* std::mutex the caller already holds: undefined behaviour, and relock is
\* what the build makes of it, "blocks" (the thread waits for itself for
\* ever) or "throws" (std::system_error, caught by the loop, so no cancel
\* takes effect).  disconnect() then needs the broker's mutex_ and joins the
\* fill threads; a thread inside its fill loop holds that mutex and waits
\* for the engine's, so shutdown() never returns.  mutex_ = "shutdown" is
\* the engine's mutex held by a shutdown() that cannot return.
ENG_shutdown(w, relock) ==
    LET e1 == [w.eng EXCEPT !.shutdown_requested_ = TRUE]
        in_loop == \E o \in DOMAIN w.mb.fill_threads_ :
                       w.mb.fill_threads_[o].pc = "running"
    IN  IF w.eng.shutdown_requested_ THEN w
        ELSE IF DOMAIN w.eng.active_orders_ # {} /\ relock = "blocks"
        THEN [w EXCEPT !.eng = [e1 EXCEPT !.mutex_ = "shutdown"]]
        ELSE IF in_loop
        THEN [w EXCEPT !.eng = [e1 EXCEPT !.mutex_ = "shutdown"]]
        ELSE [w EXCEPT !.eng = e1, !.mb = MB_disconnect(@)]

(***************************************************************************)
(* The locking of the handlers: which std::mutex each takes, in the order  *)
(* of the code.  A script is the sequence of lock_guard constructions and  *)
(* destructions of one call, with the steps between them that LockSpec     *)
(* needs: "find" (the lookup in active_orders_; the call returns when no   *)
(* order is active), "track" (the order enters active_orders_ and its fill *)
(* thread is started) and "finalize" (an order leaves active_orders_).     *)
(***************************************************************************)
Mutexes == {"engine", "risk", "position", "broker"}

Lock(m) == <<"lock", m>>
Unlock(m) == <<"unlock", m>>
Guarded(m) == <<Lock(m), Unlock(m)>>

\* RiskManager::check_order: get_quantity and get_total_exposure (twice)
\* under its own mutex.
CheckOrderLocks ==
    <<Lock("risk")>> \o Guarded("position") \o Guarded("position")
        \o Guarded("position") \o <<Unlock("risk")>>

\* ExecutionEngine::submit_order of an order that is approved and routed.
SubmitLocks ==
    <<Lock("engine")>> \o CheckOrderLocks
        \o Guarded("broker") \o Guarded("broker") \o <<<<"track", "engine">>>>
        \o <<Unlock("engine")>>

\* ExecutionEngine::cancel_order.
CancelLocks ==
    <<Lock("engine"), <<"find", "engine">>>> \o Guarded("broker")
        \o Guarded("risk") \o <<<<"finalize", "engine">>>> \o <<Unlock("engine")>>

\* ExecutionEngine::modify_order.
ModifyLocks ==
    <<Lock("engine"), <<"find", "engine">>>> \o Guarded("broker")
        \o <<Unlock("engine")>>

\* ExecutionEngine::on_fill: PositionManager::on_fill, then
\* RiskManager::on_fill, whose update_pnl reads the PositionManager twice.
OnFillLocks(last) ==
    <<Lock("engine")>> \o Guarded("position")
        \o <<Lock("risk")>> \o Guarded("position") \o Guarded("position")
        \o <<Unlock("risk")>>
        \o (IF last THEN <<<<"finalize", "engine">>>> ELSE <<>>)
        \o <<Unlock("engine")>>

RECURSIVE FillLoopLocks(_)
FillLoopLocks(n) ==
    IF n = 0 THEN <<>> ELSE OnFillLocks(n = 1) \o FillLoopLocks(n - 1)

\* MockBroker::simulate_fill: mutex_ from the end of the sleep to the return,
\* Engine.on_fill once per fill inside.
SimulateFillLocks ==
    <<Lock("broker")>>
        \o FillLoopLocks(IF broker_config.enable_partial_fills
                         THEN broker_config.partial_fill_count ELSE 1)
        \o <<Unlock("broker")>>

Script(op) ==
    CASE op = "submit_order" -> SubmitLocks
      [] op = "cancel_order" -> CancelLocks
      [] op = "modify_order" -> ModifyLocks
      [] op = "simulate_fill" -> SimulateFillLocks

Strategies == {"strategy1", "strategy2"}
FillThreads == {"fill" \o ToString(k) : k \in 1..MaxCalls}
Threads == Strategies \cup FillThreads

Idle == [op |-> "idle", pc |-> 0]

\* owner: the thread that holds each mutex; thr: each thread's call and its
\* position in the call's script; calls: the calls made; active: the size of
\* active_orders_; fills: the fill threads started.
LKInit ==
    [owner |-> [m \in Mutexes |-> "none"],
     thr |-> [t \in Threads |-> Idle],
     calls |-> 0, active |-> 0, fills |-> 0]

(***************************************************************************)
(* RiskSpec: the RiskManager and its PositionManager driven directly, as   *)
(* the unit tests drive them.                                              *)
(***************************************************************************)

(***************************************************************************)
(* PosSpec: the PositionManager driven directly, as its unit tests drive   *)
(* it.                                                                     *)
(***************************************************************************)
PosInstruments == {"EURUSD", "GBPUSD"}

\* A quantity below the 1e-8 tolerance.
Dust == <<1, 100000001>>

\* The fills the callers pass in: both sides, two sizes and two prices on
\* one instrument, a dust fill on either side, a fill of quantity 0, and
\* fills on a second instrument.
PosFillInputs ==
    {Fill("O1", "EURUSD", side, R(q), R(p), <<1, 2>>) :
        side \in OrderSide, q \in {1, 2}, p \in {1, 2}}
    \cup {Fill("O1", "EURUSD", "BUY", Dust, R(2), <<1, 2>>),
          Fill("O1", "EURUSD", "SELL", Dust, R(1), <<1, 2>>),
          Fill("O1", "EURUSD", "BUY", Zero, R(1), Zero),
          Fill("O2", "GBPUSD", "BUY", R(1), R(1), <<1, 2>>),
          Fill("O2", "GBPUSD", "SELL", R(2), R(2), <<1, 2>>)}

\* The orders, fills and price snapshots the callers pass in.
OrderInputs ==
    {OrderRequest("O1", "EURUSD", "BUY", "LIMIT", R(1), R(1)),
     OrderRequest("O2", "EURUSD", "BUY", "LIMIT", R(1), R(1)),
     OrderRequest("O2", "EURUSD", "SELL", "MARKET", R(2), R(0)),
     OrderRequest("O1", "EURUSD", "BUY", "LIMIT", R(3), R(1)),
     OrderRequest("O2", "EURUSD", "SELL", "LIMIT", R(0), R(1)),
     OrderRequest("O1", "EURUSD", "BUY", "STOP_LIMIT", R(1), R(0))}
FillInputs ==
    {Fill("O1", "EURUSD", "BUY", R(2), R(3), Zero),
     Fill("O2", "EURUSD", "SELL", R(1), R(1), Zero)}
PriceMaps ==
    UNION {[S -> {R(1), R(3), R(4)}] : S \in SUBSET Instruments}

NoCall == [op |-> "none"]

InitWith(e) ==
    /\ pm = PMInit
    /\ rm = RMInit
    /\ now = 0
    /\ ret = NoCall
    /\ approved = <<>>
    /\ approved_ever = <<>>
    /\ nops = 0
    /\ eng = e
    /\ mb = MBInit
    /\ order_cb = <<>>
    /\ fill_cb = <<>>
    /\ used = {}
    /\ lk = LKInit
    /\ net = [i \in PosInstruments |-> Zero]

\* The broker is registered with the engine as its only provider.
Init == InitWith(ENGInit)

\* A callback's exception has left a handler: the model follows the program
\* up to there.
Escaped == "escaped" \in DOMAIN ret /\ ret.escaped

Called == nops < MaxOps /\ ~Escaped /\ nops' = nops + 1

\* A call on the managers alone leaves the engine and the broker as they are.
RiskCalled ==
    /\ nops < MaxRiskCalls
    /\ nops' = nops + 1
    /\ UNCHANGED <<corevars, lk, net>>

RS_check_order ==
    \E order \in OrderInputs, current_price \in {R(1)} :
        LET c == check_order(rm, pm, order, current_price, now)
        IN  /\ RiskCalled
            /\ rm' = c.rm
            /\ ret' = [op |-> "check_order", order |-> order,
                       current_price |-> current_price, result |-> c.result]
            /\ approved' = IF c.result.allowed THEN Append(approved, now)
                           ELSE approved
            /\ approved_ever' = IF c.result.allowed THEN Append(approved_ever, now)
                                ELSE approved_ever
            /\ UNCHANGED <<pm, now>>

RS_pm_on_fill ==
    \E fill \in FillInputs :
        /\ RiskCalled
        /\ pm' = PM_on_fill(pm, fill)
        /\ ret' = [op |-> "pm_on_fill"]
        /\ UNCHANGED <<rm, now, approved, approved_ever>>

RS_on_fill ==
    \E fill \in FillInputs :
        /\ RiskCalled
        /\ rm' = RM_on_fill(rm, pm, fill)
        /\ ret' = [op |-> "on_fill"]
        /\ UNCHANGED <<pm, now, approved, approved_ever>>

RS_on_order_rejected ==
    \E id \in OrderIds :
        /\ RiskCalled
        /\ rm' = on_order_rejected(rm, id)
        /\ ret' = [op |-> "on_order_rejected"]
        /\ UNCHANGED <<pm, now, approved, approved_ever>>

RS_on_order_cancelled ==
    \E id \in OrderIds :
        /\ RiskCalled
        /\ rm' = on_order_cancelled(rm, id)
        /\ ret' = [op |-> "on_order_cancelled"]
        /\ UNCHANGED <<pm, now, approved, approved_ever>>

RS_update_market_prices ==
    \E prices \in PriceMaps :
        /\ RiskCalled
        /\ rm' = update_market_prices(rm, pm, prices)
        /\ ret' = [op |-> "update_market_prices"]
        /\ UNCHANGED <<pm, now, approved, approved_ever>>

RS_reset_daily ==
    /\ RiskCalled
    /\ rm' = RM_reset_daily(rm)
    /\ ret' = [op |-> "reset_daily"]
    /\ approved' = <<>>
    /\ UNCHANGED <<pm, now, approved_ever>>

\* Time passes between two calls.
Tick ==
    \E t \in {1, MaxTime} :
        /\ RiskCalled
        /\ now + t <= MaxTime
        /\ now' = now + t
        /\ ret' = [op |-> "tick"]
        /\ UNCHANGED <<pm, rm, approved, approved_ever>>

RiskNext ==
    \/ RS_check_order
    \/ RS_pm_on_fill
    \/ RS_on_fill
    \/ RS_on_order_rejected
    \/ RS_on_order_cancelled
    \/ RS_update_market_prices
    \/ RS_reset_daily
    \/ Tick


\* The latest call passed a dust fill.  A run ends there: the products of
\* what follows a dust quantity do not fit the integers of the model.
DustSeen == ret.op = "pm_on_fill" /\ ret.fill.quantity = Dust

PosCalled ==
    /\ nops < MaxFills
    /\ ~DustSeen
    /\ nops' = nops + 1
    /\ UNCHANGED <<rm, now, approved, approved_ever, corevars, lk>>

PS_on_fill ==
    \E fill \in PosFillInputs :
        /\ PosCalled
        /\ pm' = PM_on_fill(pm, fill)
        /\ ret' = [op |-> "pm_on_fill", fill |-> fill]
        /\ net' = [net EXCEPT ![fill.instrument] =
                      RAdd(@, IF fill.side = "BUY" THEN fill.quantity
                              ELSE RNeg(fill.quantity))]

PS_reset_daily ==
    /\ PosCalled
    /\ pm' = PM_reset_daily(pm)
    /\ ret' = [op |-> "pm_reset_daily"]
    /\ UNCHANGED net

PosNext ==
    \/ PS_on_fill
    \/ PS_reset_daily

PosSpec == Init /\ [][PosNext]_vars

RiskSpec == Init /\ [][RiskNext]_vars


(***************************************************************************)
(* Spec: strategies and the broker's fill threads acting on the engine.    *)
(* Every handler of the engine runs under its mutex_ and is one step.  A   *)
(* handler that calls into the broker takes the broker's mutex_, which a   *)
(* fill thread holds across its whole fill loop; such a handler is         *)
(* taken here only when that mutex is free (LockSpec follows the threads   *)
(* lock by lock).                                                          *)
(***************************************************************************)
\* What the first registered callback throws when it is called.
Thrown == {"none", "std::exception", "other"}

Now == World(eng, rm, pm, mb, order_cb, fill_cb)

\* The step leaves the core as w, with the call and its return value in ret.
Becomes(w, call) ==
    /\ eng' = w.eng
    /\ rm' = w.rm
    /\ pm' = w.pm
    /\ mb' = w.mb
    /\ order_cb' = w.order_cb
    /\ fill_cb' = w.fill_cb
    /\ ret' = call @@ [result |-> w.result, escaped |-> w.escaped]
    /\ UNCHANGED <<now, approved, approved_ever, lk, net>>

EngineFree == eng.mutex_ = "free"
BrokerFree == mb.mutex_ = "free"

\* submit_order gets as far as the provider's is_connected().
ReachesProvider(order) ==
    LET current_price == IF order.type = "MARKET" \/ order.price = Zero
                         THEN R(1) ELSE order.price
    IN  /\ ~eng.shutdown_requested_
        /\ check_order(rm, pm, order, current_price, now).result.allowed
        /\ select_provider_for_order(eng, order) \in eng.providers_

\* The orders the strategies submit: those of OrderInputs other than the
\* stop-limit order and the order above max_order_size, and a sell order of
\* max_order_size.
Submit ==
    \E order \in {o \in OrderInputs : o.type # "STOP_LIMIT" /\ o.quantity # R(3)}
                 \cup {OrderRequest("O1", "EURUSD", "SELL", "LIMIT", R(2), R(1))},
       roll \in BOOLEAN, raises \in BOOLEAN, thrown \in Thrown :
        /\ order.order_id \notin used
        /\ EngineFree
        /\ ReachesProvider(order) => BrokerFree
        /\ Called
        /\ used' = used \cup {order.order_id}
        /\ Becomes(ENG_submit_order([Now EXCEPT !.thrown = thrown], order, now,
                                    roll, raises),
                   [op |-> "submit_order", order |-> order])

Cancel ==
    \E order_id \in OrderIds, raises \in BOOLEAN, thrown \in Thrown :
        /\ EngineFree
        /\ order_id \in DOMAIN eng.active_orders_ => BrokerFree
        /\ Called
        /\ UNCHANGED used
        /\ Becomes(ENG_cancel_order([Now EXCEPT !.thrown = thrown], order_id, raises),
                   [op |-> "cancel_order"])

\* A strategy modifies an order: a new quantity, no new price.
Modify ==
    \E order_id \in OrderIds, new_quantity \in {R(3)}, raises \in BOOLEAN :
        /\ EngineFree
        /\ order_id \in DOMAIN eng.active_orders_ => BrokerFree
        /\ Called
        /\ UNCHANGED used
        /\ Becomes(ENG_modify_order(Now, [order_id |-> order_id, new_price |-> <<>>,
                                          new_quantity |-> <<new_quantity>>], raises),
                   [op |-> "modify_order"])

\* The statuses an adapter reports through on_order_update.
UpdateStatuses == {"ACKNOWLEDGED", "CANCELLED", "REJECTED", "EXPIRED", "ERROR"}

\* The update an adapter sends for an order: the status it reports, with the
\* quantities of the order as the adapter holds them.
AdapterUpdate(order_id, status) ==
    IF order_id \in DOMAIN mb.orders_
    THEN [mb.orders_[order_id].current_status EXCEPT
             !.status = status, !.reason = <<>>]
    ELSE OrderUpdate(order_id, status, Zero, Zero, Zero, <<>>)

OnOrderUpdate ==
    \E order_id \in used, status \in UpdateStatuses, thrown \in Thrown :
        /\ EngineFree
        /\ Called
        /\ UNCHANGED used
        /\ Becomes(ENG_on_order_update([Now EXCEPT !.thrown = thrown],
                                       AdapterUpdate(order_id, status)),
                   [op |-> "on_order_update"])

\* A fill thread wakes after its latency, takes the broker's mutex_ and
\* either returns or runs the first iteration of its loop; a running thread
\* runs its next iteration.  An iteration books the fill and calls
\* Engine.on_fill.
FillStep ==
    \E order_id \in DOMAIN mb.fill_threads_, thrown \in Thrown :
        LET t == mb.fill_threads_[order_id]
            b0 == IF t.pc = "sleeping" THEN Sim_enter(mb, order_id) ELSE mb
            fill == Sim_fill(b0, order_id)
            w == ENG_on_fill([Now EXCEPT !.mb = Sim_book(b0, order_id),
                                         !.thrown = thrown], fill)
        IN  /\ t.pc # "done"
            /\ t.pc = "sleeping" => BrokerFree
            /\ EngineFree
            /\ ~Escaped
            /\ UNCHANGED <<used, nops>>
            /\ IF Sim_continues(b0, order_id)
               THEN Becomes([w EXCEPT !.mb = Sim_leave(@, order_id)],
                            [op |-> "on_fill"])
               ELSE Becomes([Now EXCEPT !.mb = Sim_leave(b0, order_id)],
                            [op |-> "no_fill"])

Shutdown ==
    \E relock \in {"blocks", "throws"} :
        /\ EngineFree
        /\ Called
        /\ UNCHANGED used
        /\ Becomes(ENG_shutdown(Now, relock), [op |-> "shutdown"])

\* The application disconnects the broker: the flags under mutex_, then the
\* joins of the fill threads, which wake, find shutdown_requested_ and return.
Disconnect ==
    /\ BrokerFree
    /\ Called
    /\ UNCHANGED used
    /\ Becomes([Now EXCEPT !.mb = MB_disconnect(@)], [op |-> "disconnect"])

Next ==
    \/ Submit
    \/ Cancel
    \/ Modify
    \/ OnOrderUpdate
    \/ FillStep
    \/ Shutdown
    \/ Disconnect

\* The engine starts with the broker registered, or as constructed, with no
\* provider registered.
Spec ==
    /\ Init \/ InitWith([ENGInit EXCEPT !.providers_ = {}, !.default_provider_ = ""])
    /\ [][Next]_vars


(***************************************************************************)
(* LockSpec: strategy threads calling submit, cancel and modify, and the   *)
(* fill threads of the MockBroker, one lock operation per step.            *)
(***************************************************************************)
Instr(t) == Script(lk.thr[t].op)[lk.thr[t].pc]
Running(t) == lk.thr[t].op # "idle" /\ lk.thr[t].pc <= Len(Script(lk.thr[t].op))
Advance(t) == [lk EXCEPT !.thr[t].pc = @ + 1]

LK_Call ==
    \E t \in Strategies, op \in {"submit_order", "cancel_order", "modify_order"} :
        /\ lk.thr[t].op = "idle"
        /\ lk.calls < MaxCalls
        /\ lk' = [lk EXCEPT !.thr[t] = [op |-> op, pc |-> 1], !.calls = @ + 1]
        /\ UNCHANGED datavars

LK_Lock ==
    \E t \in Threads :
        /\ Running(t)
        /\ Instr(t)[1] = "lock"
        /\ lk.owner[Instr(t)[2]] = "none"
        /\ lk' = [Advance(t) EXCEPT !.owner[Instr(t)[2]] = t]
        /\ UNCHANGED datavars

LK_Unlock ==
    \E t \in Threads :
        /\ Running(t)
        /\ Instr(t)[1] = "unlock"
        /\ lk' = [Advance(t) EXCEPT !.owner[Instr(t)[2]] = "none"]
        /\ UNCHANGED datavars

\* The lookup in active_orders_: without an active order the call skips to
\* its last instruction, the release of the engine's mutex.
LK_Find ==
    \E t \in Threads :
        /\ Running(t)
        /\ Instr(t)[1] = "find"
        /\ lk' = IF lk.active > 0 THEN Advance(t)
                 ELSE [lk EXCEPT !.thr[t].pc = Len(Script(lk.thr[t].op))]
        /\ UNCHANGED datavars

\* The provider accepted the order: it is tracked and its fill thread
\* starts (asleep for the latency, holding nothing).
LK_Track ==
    \E t \in Threads :
        /\ Running(t)
        /\ Instr(t)[1] = "track"
        /\ lk' = [Advance(t) EXCEPT
                    !.active = @ + 1,
                    !.fills = @ + 1,
                    !.thr["fill" \o ToString(lk.fills + 1)] =
                        [op |-> "simulate_fill", pc |-> 1]]
        /\ UNCHANGED datavars

LK_Finalize ==
    \E t \in Threads :
        /\ Running(t)
        /\ Instr(t)[1] = "finalize"
        /\ lk' = [Advance(t) EXCEPT !.active = IF @ > 0 THEN @ - 1 ELSE 0]
        /\ UNCHANGED datavars

LK_Return ==
    \E t \in Threads :
        /\ lk.thr[t].op # "idle"
        /\ lk.thr[t].pc > Len(Script(lk.thr[t].op))
        /\ lk' = [lk EXCEPT !.thr[t] = Idle]
        /\ UNCHANGED datavars

LockNext ==
    \/ LK_Call
    \/ LK_Lock
    \/ LK_Unlock
    \/ LK_Find
    \/ LK_Track
    \/ LK_Finalize
    \/ LK_Return

LockSpec == Init /\ [][LockNext]_vars

\* t is at a lock instruction whose mutex another thread holds.
Waiting(t) ==
    /\ Running(t)
    /\ Instr(t)[1] = "lock"
    /\ lk.owner[Instr(t)[2]] # "none"

\* Some threads wait, each for a mutex held by one of them.
Deadlocked ==
    \E D \in SUBSET Threads :
        /\ D # {}
        /\ \A t \in D : Waiting(t) /\ lk.owner[Instr(t)[2]] \in D

(***************************************************************************)
(* LiveSpec: orders are submitted while the application disconnects and    *)
(* connects the broker, and the fill threads run: a thread that can take   *)
(* a step eventually takes one.                                            *)
(***************************************************************************)
\* connect(): sets connected_ and nothing else.
Connect ==
    /\ BrokerFree
    /\ Called
    /\ UNCHANGED used
    /\ Becomes([Now EXCEPT !.mb.connected_ = TRUE], [op |-> "connect"])

(***************************************************************************)
(* HistSpec: the engine has run for HistoryCap days before the day Spec     *)
(* follows.  On each of them one order was submitted, acknowledged and      *)
(* cancelled, its fill thread woke up and returned, and reset_daily was     *)
(* called; the callbacks were registered after that.                        *)
(***************************************************************************)
\* What one such day leaves of its order o.
OldDay(o) ==
    LET order == OrderRequest(o, "EURUSD", "BUY", "LIMIT", R(1), R(1))
        w0 == World(ENGInit, RMInit, PMInit, MBInit, <<>>, <<>>)
        w1 == ENG_submit_order(w0, order, 0, FALSE, FALSE)
        w2 == ENG_cancel_order(w1, o, FALSE)
    IN  [w2 EXCEPT !.mb = Sim_leave(Sim_enter(@, o), o),
                   !.rm = RM_reset_daily(@)]

HistSpec ==
    /\ pm = PMInit
    /\ rm = RMInit
    /\ now = 0
    /\ ret = NoCall
    /\ approved = <<>>
    /\ approved_ever = <<>>
    /\ nops = 0
    /\ eng = [ENGInit EXCEPT
                !.completed_orders_ =
                    [o \in OldIds |-> OldDay(o).eng.completed_orders_[o]],
                !.stats_.total_orders_submitted = HistoryCap,
                !.stats_.total_orders_cancelled = HistoryCap]
    /\ mb = [MBInit EXCEPT
                !.orders_ = [o \in OldIds |-> OldDay(o).mb.orders_[o]],
                !.fill_threads_ = [o \in OldIds |-> OldDay(o).mb.fill_threads_[o]]]
    /\ order_cb = <<>>
    /\ fill_cb = <<>>
    /\ used = OldIds
    /\ lk = LKInit
    /\ net = [i \in PosInstruments |-> Zero]
    /\ [][Submit \/ Cancel \/ FillStep]_vars

\* The operating system schedules every thread: a fill thread that can take
\* its step takes it.
LiveSpec ==
    /\ Init
    /\ [][Submit \/ FillStep \/ Disconnect \/ Connect]_vars
    /\ WF_vars(FillStep)

\* C4: with a MockBroker registered, no interleaving of strategy threads
\* calling submit, cancel and modify with the broker's fill threads reaches
\* a deadlock.
C4_NoDeadlock == ~Deadlocked

(***************************************************************************)
(* Properties of the engine, checked under Spec                            *)
(***************************************************************************)
\* C1: the reservations map of the RiskManager has as many entries as the
\* active-orders map of the engine.
C1_ReservationsMatchActive ==
    Cardinality(DOMAIN rm.reserved_by_order_)
        = Cardinality(DOMAIN eng.active_orders_)

\* C2: an order that has reached a terminal status in the engine (it has
\* left the active-orders map for the history) has no reservation.
C2_TerminalReleases ==
    \A id \in DOMAIN eng.completed_orders_ : id \notin DOMAIN rm.reserved_by_order_

\* C3: no order callback is invoked for an order id after a callback has
\* delivered a terminal status for that id.
C3_TerminalFinality ==
    \A i, j \in DOMAIN order_cb :
        (i < j /\ order_cb[i].order_id = order_cb[j].order_id)
            => order_cb[i].status \notin TerminalStatus

\* C5: shutdown() returns: it is never left holding the engine's mutex.
C5_ShutdownReturns == eng.mutex_ # "shutdown"

\* C6: a cancel_order that comes after the fill that completed the order
\* returns the order's state: Filled, with its filled quantity.
C6_CancelAfterFill ==
    (/\ ret.op = "cancel_order"
     /\ ret.result.order_id \in DOMAIN eng.completed_orders_
     /\ eng.completed_orders_[ret.result.order_id].current_status.status = "FILLED")
    => (/\ ret.result.status = "FILLED"
        /\ ret.result.filled_qty =
             eng.completed_orders_[ret.result.order_id].current_status.filled_qty)

(***************************************************************************)
(* Properties of the RiskManager, checked under RiskSpec                   *)
(***************************************************************************)
\* The step is a call of check_order.
CheckOrderStep == nops' # nops /\ ret'.op = "check_order"

\* C7: once the halt flag is true, no call other than reset_daily() makes it
\* false.
C7_HaltSticky ==
    [][(rm.halt_active_ /\ ~rm'.halt_active_) => RS_reset_daily]_vars

\* check_order has run on a halted manager and the halt is still active.
C7_Witness ==
    /\ rm.halt_active_
    /\ ret.op = "check_order"
    /\ ret.result.reason[1] = "Trading halted: "

\* C8: while the halt stays active, halt_reason() keeps returning the reason
\* of the trigger that set the halt.
C8_FirstReasonKept ==
    [][(rm.halt_active_ /\ rm'.halt_active_)
        => get_halt_reason(rm') = get_halt_reason(rm)]_vars

\* The number of timestamps of ts inside the window [t, t + OneMinute].
InWindow(ts, t) ==
    Cardinality({i \in DOMAIN ts : t <= ts[i] /\ ts[i] <= t + OneMinute})

\* C9 as stated: over all approvals, reset_daily calls included, no rolling
\* minute holds more than max_orders_per_minute approvals.
C9_RateWindowAcrossResets ==
    \A t \in 0..MaxTime :
        InWindow(approved_ever, t) <= limits.max_orders_per_minute

\* C9 amended: among the approvals since the last reset_daily, no rolling
\* minute holds more than max_orders_per_minute approvals.
C9_RateWindowSinceReset ==
    \A t \in 0..MaxTime :
        InWindow(approved, t) <= limits.max_orders_per_minute

\* More approvals than the per-minute limit since the last reset: the
\* limiter has denied or evicted and approved again.
C9_Witness == Len(approved) > limits.max_orders_per_minute

\* The order passes every gate of check_order that precedes the daily-loss
\* gate.
PassesEarlierGates(r, p, order, current_price, now_ns) ==
    LET order_price == IF order.type = "MARKET" THEN current_price ELSE order.price
        signed_order_qty == SignedQty(order.side, order.quantity)
    IN  /\ ~r.halt_active_
        /\ RGt(order.quantity, Zero)
        /\ (order.type = "LIMIT" => RGt(order.price, Zero))
        /\ RLe(order.quantity, limits.max_order_size)
        /\ Len(EvictOld(r.recent_order_timestamps_, now_ns))
              < limits.max_orders_per_minute
        /\ r.orders_submitted_today_ < limits.max_orders_per_day
        /\ RLe(RAbs(RAdd(get_quantity(p, order.instrument), signed_order_qty)),
               limits.max_position_size)
        /\ RLe(RAdd(RAdd(get_total_exposure(p, r.market_prices_), total_reserved(r)),
                    RAbs(RMul(signed_order_qty, order_price))),
               limits.max_total_exposure)

\* C10: a check_order that reaches the daily-loss gate with
\* daily_pnl < -max_daily_loss denies the order and raises the halt with a
\* daily-loss reason; while the halt is active every check_order is denied,
\* and only reset_daily() ends the halt.
C10_DailyLossHalts ==
    [][/\ (/\ CheckOrderStep
           /\ PassesEarlierGates(rm, pm, ret'.order, ret'.current_price, now)
           /\ RLt(rm.daily_pnl_, RNeg(limits.max_daily_loss)))
          => (/\ ~ret'.result.allowed
              /\ rm'.halt_active_
              /\ get_halt_reason(rm')[1] = "Daily loss limit exceeded: ")
       /\ (CheckOrderStep /\ rm.halt_active_) => ~ret'.result.allowed
       /\ (rm.halt_active_ /\ ~rm'.halt_active_) => ret'.op = "reset_daily"
      ]_vars

\* The daily-loss gate has just denied an order and raised the halt.
C10_Witness ==
    /\ ret.op = "check_order"
    /\ ~ret.result.allowed
    /\ ret.result.reason[1] = "Daily loss limit exceeded: "
    /\ rm.halt_active_
    /\ RLt(rm.daily_pnl_, RNeg(limits.max_daily_loss))


\* The step is a call of RiskManager::on_fill.
OnFillStep == nops' # nops /\ ret'.op = "on_fill"

\* C11: after every RiskManager.on_fill, daily_pnl is the Position Manager's
\* realized plus unrealized PnL at the stored market prices, daily_high_pnl
\* has been raised to it if larger, and the halt flag is active whenever
\* daily_high_pnl - daily_pnl > max_drawdown_from_high.
C11_OnFillRefreshes ==
    [][OnFillStep =>
        /\ rm'.daily_pnl_ = RAdd(get_total_realized_pnl(pm),
                                 get_total_unrealized_pnl(pm, rm.market_prices_))
        /\ rm'.daily_high_pnl_ =
              (IF RGt(rm'.daily_pnl_, rm.daily_high_pnl_) THEN rm'.daily_pnl_
               ELSE rm.daily_high_pnl_)
        /\ (RGt(RSub(rm'.daily_high_pnl_, rm'.daily_pnl_),
                limits.max_drawdown_from_high) => rm'.halt_active_)
      ]_vars

\* on_fill has run with an open position marked at a loss: the refreshed
\* daily_pnl has an unrealized part and the drawdown raised the halt.
C11_Witness ==
    /\ ret.op = "on_fill"
    /\ get_total_unrealized_pnl(pm, rm.market_prices_) # Zero
    /\ rm.daily_pnl_ = RAdd(get_total_realized_pnl(pm),
                            get_total_unrealized_pnl(pm, rm.market_prices_))
    /\ RGt(RSub(rm.daily_high_pnl_, rm.daily_pnl_), limits.max_drawdown_from_high)
    /\ rm.halt_active_


\* The gates of check_order in the order the claim gives them, each with the
\* head of the reason it returns.
GateReasons ==
    <<"Trading halted: ", "Invalid quantity: must be > 0",
      "Invalid limit price: must be > 0", "Order size exceeds limit: ",
      "Order rate limit exceeded: ", "Daily order limit exceeded: ",
      "Position size limit exceeded: new_qty=",
      "Exposure limit exceeded: would add ", "Daily loss limit exceeded: ",
      "Insufficient free capital: ">>

DailyLossGate == 9

\* Whether the order violates gate i, read off the manager's state before the
\* call.
GateViolated(i, r, p, order, current_price, now_ns) ==
    LET order_price == IF order.type = "MARKET" THEN current_price ELSE order.price
        signed_order_qty == SignedQty(order.side, order.quantity)
        held == RAdd(get_total_exposure(p, r.market_prices_), total_reserved(r))
    IN  CASE i = 1 -> r.halt_active_
          [] i = 2 -> RLe(order.quantity, Zero)
          [] i = 3 -> order.type = "LIMIT" /\ RLe(order.price, Zero)
          [] i = 4 -> RGt(order.quantity, limits.max_order_size)
          [] i = 5 -> Len(EvictOld(r.recent_order_timestamps_, now_ns))
                         >= limits.max_orders_per_minute
          [] i = 6 -> r.orders_submitted_today_ >= limits.max_orders_per_day
          [] i = 7 -> RGt(RAbs(RAdd(get_quantity(p, order.instrument),
                                    signed_order_qty)),
                          limits.max_position_size)
          [] i = 8 -> RGt(RAdd(held, RAbs(RMul(signed_order_qty, order_price))),
                          limits.max_total_exposure)
          [] i = 9 -> RLt(r.daily_pnl_, RNeg(limits.max_daily_loss))
          [] i = 10 -> RLt(RSub(limits.bankroll,
                                RAdd(held, RAbs(RMul(order.quantity, order_price)))),
                           RMul(limits.bankroll, limits.min_free_capital_pct))

ViolatedGates(r, p, order, current_price, now_ns) ==
    {i \in DOMAIN GateReasons : GateViolated(i, r, p, order, current_price, now_ns)}

FirstViolated(r, p, order, current_price, now_ns) ==
    CHOOSE i \in ViolatedGates(r, p, order, current_price, now_ns) :
        \A j \in ViolatedGates(r, p, order, current_price, now_ns) : i <= j

\* C12: check_order evaluates its gates in the fixed order halt, quantity and
\* price validity, max_order_size, per-minute rate, per-day count, position
\* size, total exposure, daily loss, free capital: the returned reason is
\* that of the first violated gate, and the daily-loss gate raises the halt
\* only when it is that first gate.
C12_GateOrder ==
    [][CheckOrderStep =>
        LET V == ViolatedGates(rm, pm, ret'.order, ret'.current_price, now)
            first == FirstViolated(rm, pm, ret'.order, ret'.current_price, now)
        IN  IF V = {}
            THEN ret'.result.allowed /\ rm'.halt_active_ = rm.halt_active_
            ELSE /\ ~ret'.result.allowed
                 /\ ret'.result.reason[1] = GateReasons[first]
                 /\ rm'.halt_active_ = (rm.halt_active_ \/ first = DailyLossGate)
                 /\ rm'.orders_rejected_today_ = rm.orders_rejected_today_ + 1
      ]_vars

\* An order above max_order_size was checked while the daily loss is beyond
\* its limit: the size gate answered and the halt was not raised.
C12_Witness ==
    /\ ret.op = "check_order"
    /\ RGt(ret.order.quantity, limits.max_order_size)
    /\ RLt(rm.daily_pnl_, RNeg(limits.max_daily_loss))
    /\ ret.result.reason[1] = "Order size exceeds limit: "
    /\ ~rm.halt_active_


\* C13: a check_order that returns allowed=false creates no reservation, does
\* not increment orders_submitted_today and adds no timestamp to the
\* rate-limit history; an approval puts one reservation of |quantity * p_ref|
\* under the order id, appends one timestamp and increments
\* orders_submitted_today by one.
C13_CheckOrderFrame ==
    [][CheckOrderStep =>
        LET order == ret'.order
            p_ref == IF order.type = "MARKET" THEN ret'.current_price
                     ELSE order.price
            kept == EvictOld(rm.recent_order_timestamps_, now)
        IN  IF ret'.result.allowed
            THEN /\ DOMAIN rm'.reserved_by_order_
                      = DOMAIN rm.reserved_by_order_ \cup {order.order_id}
                 /\ rm'.reserved_by_order_[order.order_id]
                      = RAbs(RMul(order.quantity, p_ref))
                 /\ \A o \in DOMAIN rm.reserved_by_order_ \ {order.order_id} :
                      rm'.reserved_by_order_[o] = rm.reserved_by_order_[o]
                 /\ rm'.recent_order_timestamps_ = Append(kept, now)
                 /\ rm'.orders_submitted_today_ = rm.orders_submitted_today_ + 1
            ELSE /\ rm'.reserved_by_order_ = rm.reserved_by_order_
                 /\ rm'.recent_order_timestamps_ \in {rm.recent_order_timestamps_, kept}
                 /\ rm'.orders_submitted_today_ = rm.orders_submitted_today_
      ]_vars

\* A denied check_order has come after approvals: the reservations and the
\* submission count of the approvals are all there is.
C13_Witness ==
    /\ ret.op = "check_order"
    /\ ~ret.result.allowed
    /\ rm.orders_submitted_today_ > 0
    /\ rm.orders_rejected_today_ > 0
    /\ ret.order.order_id \notin DOMAIN rm.reserved_by_order_
    /\ DOMAIN rm.reserved_by_order_ # {}


\* C14: check_order denies, with an invalid quantity or price reason, every
\* order with quantity <= 0 and every Limit or StopLimit order whose price
\* is <= 0 (on a manager that is not halted, the halt gate coming first).
C14_InvalidOrdersDenied ==
    [][(/\ CheckOrderStep
        /\ ~rm.halt_active_
        /\ \/ RLe(ret'.order.quantity, Zero)
           \/ /\ ret'.order.type \in {"LIMIT", "STOP_LIMIT"}
              /\ RLe(ret'.order.price, Zero))
       => (/\ ~ret'.result.allowed
           /\ ret'.result.reason[1] \in {"Invalid quantity: must be > 0",
                                         "Invalid limit price: must be > 0"})
      ]_vars


SizeGate == 4
PositionGate == 7

\* No gate of check_order other than gate i is violated.
OnlyGate(i, r, p, order, current_price, now_ns) ==
    \A j \in DOMAIN GateReasons \ {i} :
        ~GateViolated(j, r, p, order, current_price, now_ns)

\* C15: with all other gates passing, an order of quantity max_order_size is
\* approved and a larger one is denied with 'Order size exceeds limit'; a
\* projected position |current_q + signed_qty| of max_position_size is
\* approved and a larger one is denied.
C15_SizeBoundaries ==
    [][CheckOrderStep =>
        LET order == ret'.order
            new_qty == RAdd(get_quantity(pm, order.instrument),
                            SignedQty(order.side, order.quantity))
        IN  /\ OnlyGate(SizeGate, rm, pm, order, ret'.current_price, now) =>
                /\ order.quantity = limits.max_order_size => ret'.result.allowed
                /\ RGt(order.quantity, limits.max_order_size) =>
                      /\ ~ret'.result.allowed
                      /\ ret'.result.reason[1] = "Order size exceeds limit: "
            /\ OnlyGate(PositionGate, rm, pm, order, ret'.current_price, now) =>
                /\ RAbs(new_qty) = limits.max_position_size => ret'.result.allowed
                /\ RGt(RAbs(new_qty), limits.max_position_size) =>
                      /\ ~ret'.result.allowed
                      /\ ret'.result.reason[1]
                            = "Position size limit exceeded: new_qty="
      ]_vars

\* An order of exactly max_order_size that takes the position to exactly
\* max_position_size has been approved.
C15_Witness ==
    /\ ret.op = "check_order"
    /\ ret.result.allowed
    /\ ret.order.quantity = limits.max_order_size
    /\ ret.result.new_position_size = limits.max_position_size


(***************************************************************************)
(* Properties of the PositionManager, checked under PosSpec                *)
(***************************************************************************)
\* C16: after any sequence of on_fill calls, with or without reset_daily in
\* between, the stored quantity of each instrument is the sum of the signed
\* quantities of the fills applied to it.
C16_QuantityIsNetOfFills ==
    \A i \in PosInstruments : get_quantity(pm, i) = net[i]

\* A fill has come after a reset_daily that followed earlier fills, and the
\* position is short.
C16_Witness ==
    /\ ret.op = "pm_on_fill"
    /\ nops >= 3
    /\ pm.total_fills_today_ = 1
    /\ RLt(get_quantity(pm, "EURUSD"), Zero)


\* The step is a call of PositionManager::on_fill on an instrument that has
\* a position.
PosFillStep ==
    /\ nops' # nops
    /\ ret'.op = "pm_on_fill"
    /\ ret'.fill.instrument \in DOMAIN pm.positions_

\* The signed quantity f of the fill of the step, the position before it and
\* the position after it.
StepF == IF ret'.fill.side = "BUY" THEN ret'.fill.quantity
         ELSE RNeg(ret'.fill.quantity)
StepPos == pm.positions_[ret'.fill.instrument]
StepPosAfter == pm'.positions_[ret'.fill.instrument]

\* PnL realized on k units of a position of quantity q entered at p_e and
\* closed at p_f.
ClosedPnl(k, q, p_e, p_f) ==
    IF RGt(q, Zero) THEN RMul(k, RSub(p_f, p_e)) ELSE RMul(k, RSub(p_e, p_f))

SameSignOrFlat ==
    /\ PosFillStep
    /\ \/ RGt(RMul(StepPos.quantity, StepF), Zero)
       \/ StepPos.quantity = Zero

\* entry_price * (q + f) = q * p_e + f * p_f, and the quantity is q + f.
ValueWeighted ==
    /\ RMul(StepPosAfter.entry_price, RAdd(StepPos.quantity, StepF))
          = RAdd(RMul(StepPos.quantity, StepPos.entry_price),
                 RMul(StepF, ret'.fill.price))
    /\ StepPosAfter.quantity = RAdd(StepPos.quantity, StepF)

C20_NonPositiveFillIgnored ==
    [][(/\ nops' # nops
        /\ ret'.op = "pm_on_fill"
        /\ RLe(ret'.fill.quantity, Zero))
       => pm' = pm]_vars


\* C21: PositionManager::reset_daily() zeroes realized_pnl, num_fills_today
\* and total_commission of every position and the global realized-PnL and
\* fill counters, and leaves the set of instruments and every position's
\* quantity and entry_price unchanged.
C21_ResetDailyFrame ==
    [][(nops' # nops /\ ret'.op = "pm_reset_daily") =>
        /\ pm'.total_realized_pnl_ = Zero
        /\ pm'.total_fills_today_ = 0
        /\ DOMAIN pm'.positions_ = DOMAIN pm.positions_
        /\ \A i \in DOMAIN pm.positions_ :
              /\ pm'.positions_[i].realized_pnl = Zero
              /\ pm'.positions_[i].num_fills_today = 0
              /\ pm'.positions_[i].total_commission = Zero
              /\ pm'.positions_[i].quantity = pm.positions_[i].quantity
              /\ pm'.positions_[i].entry_price = pm.positions_[i].entry_price
      ]_vars

\* reset_daily has run on a manager that holds an open position after two
\* fills: the position is still there and its daily counters are zero.
C21_Witness ==
    /\ ret.op = "pm_reset_daily"
    /\ nops >= 3
    /\ "EURUSD" \in DOMAIN pm.positions_
    /\ pm.positions_["EURUSD"].quantity # Zero
    /\ pm.positions_["EURUSD"].entry_price # Zero
    /\ pm.positions_["EURUSD"].num_fills_today = 0
    /\ pm.total_fills_today_ = 0

(***************************************************************************)
(* Properties of the ExecutionEngine with its adapter, checked under Spec  *)
(***************************************************************************)
\* C22: for every order the engine tracks, active or completed, the filled
\* quantity it records never exceeds the quantity of the request that passed
\* the risk check.
C22_FilledWithinRequest ==
    /\ \A o \in DOMAIN eng.active_orders_ :
          RLe(eng.active_orders_[o].current_status.filled_qty,
              eng.active_orders_[o].request.quantity)
    /\ \A o \in DOMAIN eng.completed_orders_ :
          RLe(eng.completed_orders_[o].current_status.filled_qty,
              eng.completed_orders_[o].request.quantity)

\* C23: for every order in the engine's active or completed map, filled_qty
\* plus remaining_qty is the request's quantity; and an on_fill for an active
\* order leaves it Filled and finalized exactly when its remaining_qty is at
\* most 1e-8, and PartiallyFilled and active otherwise.
C23_QuantitiesAndFillStatus ==
    /\ [](/\ \A o \in DOMAIN eng.active_orders_ :
                RAdd(eng.active_orders_[o].current_status.filled_qty,
                     eng.active_orders_[o].current_status.remaining_qty)
                    = eng.active_orders_[o].request.quantity
          /\ \A o \in DOMAIN eng.completed_orders_ :
                RAdd(eng.completed_orders_[o].current_status.filled_qty,
                     eng.completed_orders_[o].current_status.remaining_qty)
                    = eng.completed_orders_[o].request.quantity)
    /\ [][(fill_cb' # fill_cb
           /\ fill_cb'[Len(fill_cb')].order_id \in DOMAIN eng.active_orders_) =>
            LET o == fill_cb'[Len(fill_cb')].order_id
                remaining_qty == RSub(eng.active_orders_[o].request.quantity,
                                      RAdd(eng.active_orders_[o].current_status.filled_qty,
                                           fill_cb'[Len(fill_cb')].quantity))
            IN  IF LeEps(remaining_qty)
                THEN /\ o \notin DOMAIN eng'.active_orders_
                     /\ o \in DOMAIN eng'.completed_orders_
                     /\ eng'.completed_orders_[o].current_status.status = "FILLED"
                     /\ eng'.completed_orders_[o].current_status.remaining_qty
                            = remaining_qty
                ELSE /\ o \in DOMAIN eng'.active_orders_
                     /\ eng'.active_orders_[o].current_status.status
                            = "PARTIALLY_FILLED"
                     /\ eng'.active_orders_[o].current_status.remaining_qty
                            = remaining_qty
          ]_vars

\* C24: the status the engine records for an order follows the order-state
\* table: an order recorded PartiallyFilled is never recorded Pending,
\* Submitted or Acknowledged afterwards, and an adapter's acknowledgement
\* changes the recorded status only of an order that is Pending or Submitted.
C24_StatusTransitions ==
    [][\A o \in DOMAIN eng.active_orders_ \cap DOMAIN eng'.active_orders_ :
          LET status == eng.active_orders_[o].current_status.status
              status_after == eng'.active_orders_[o].current_status.status
          IN  /\ status = "PARTIALLY_FILLED"
                    => status_after \notin {"PENDING", "SUBMITTED", "ACKNOWLEDGED"}
              /\ (/\ ret'.op = "on_order_update"
                  /\ nops' # nops
                  /\ order_cb'[Len(order_cb')].order_id = o
                  /\ order_cb'[Len(order_cb')].status = "ACKNOWLEDGED"
                  /\ status \notin {"PENDING", "SUBMITTED"})
                    => status_after = status
      ]_vars

\* C25: once MockBroker::cancel_order has cancelled an order, no fill for that
\* order is delivered to on_fill.
C25_NoFillAfterCancel ==
    [][fill_cb' # fill_cb =>
          \A i \in DOMAIN order_cb :
              ~(/\ order_cb[i].order_id = fill_cb'[Len(fill_cb')].order_id
                /\ order_cb[i].status = "CANCELLED"
                /\ order_cb[i].reason = <<"Order cancelled">>)]_vars

\* A fill thread woke after the broker had cancelled its order, and returned
\* without a fill.
C25_Witness ==
    /\ ret.op = "no_fill"
    /\ \E o \in DOMAIN mb.orders_ :
          /\ \E i \in DOMAIN order_cb :
                /\ order_cb[i].order_id = o
                /\ order_cb[i].status = "CANCELLED"
                /\ order_cb[i].reason = <<"Order cancelled">>
          /\ mb.fill_threads_[o].pc = "done"
          /\ \A i \in DOMAIN fill_cb : fill_cb[i].order_id # o

\* C26: a cancel_order that reaches the broker for an order it accepted and
\* has not filled or cancelled returns Cancelled with filled_qty 0 and
\* remaining_qty the order's quantity, and leaves the positions as they are.
C26_CancelBeforeFill ==
    [][(/\ nops' # nops
        /\ ret'.op = "cancel_order"
        /\ ret'.result.status # "ERROR"
        /\ ret'.result.order_id \in DOMAIN eng.active_orders_
        /\ ret'.result.order_id \in DOMAIN mb.orders_
        /\ mb.orders_[ret'.result.order_id].filled_qty = Zero
        /\ ~mb.orders_[ret'.result.order_id].cancelled) =>
          /\ ret'.result.status = "CANCELLED"
          /\ ret'.result.filled_qty = Zero
          /\ ret'.result.remaining_qty
                = mb.orders_[ret'.result.order_id].request.quantity
          /\ pm' = pm
      ]_vars

\* O1 was submitted for quantity 1 and cancelled while its fill thread slept.
C26_Witness ==
    /\ ret.op = "cancel_order"
    /\ ret.result.order_id = "O1"
    /\ ret.result.status = "CANCELLED"
    /\ ret.result.remaining_qty = R(1)
    /\ mb.fill_threads_["O1"].pc = "sleeping"
    /\ pm = PMInit

\* C27: with shutdown requested, submit_order returns Rejected with the
\* reason "Execution engine shutting down" and calls neither the risk check
\* nor a provider: the RiskManager (reservations, counters, rate history)
\* and the broker are as before and the order is in no map of the engine.
C27_SubmitDuringShutdown ==
    [][(nops' # nops /\ ret'.op = "submit_order" /\ eng.shutdown_requested_) =>
          /\ ret'.result.status = "REJECTED"
          /\ ret'.result.reason = <<"Execution engine shutting down">>
          /\ ret'.result.order_id = ret'.order.order_id
          /\ rm' = rm
          /\ pm' = pm
          /\ mb' = mb
          /\ order_cb' = order_cb
          /\ eng'.active_orders_ = eng.active_orders_
          /\ eng'.completed_orders_ = eng.completed_orders_
          /\ ret'.order.order_id \notin DOMAIN eng'.active_orders_
          /\ ret'.order.order_id \notin DOMAIN rm'.reserved_by_order_
      ]_vars

\* An order that the risk check would approve was submitted after shutdown().
C27_Witness ==
    /\ ret.op = "submit_order"
    /\ eng.shutdown_requested_
    /\ ret.result.reason = <<"Execution engine shutting down">>
    /\ check_order(rm, pm, ret.order, R(1), now).result.allowed

\* C28: an order that passes the risk check but cannot be routed, because no
\* provider is selected for it or because its provider is not connected, is
\* returned Rejected; the provider's submit_order is not called, the order is
\* not in the active map and holds no reservation when submit_order returns.
C28_UnroutableRejected ==
    [][(/\ nops' # nops
        /\ ret'.op = "submit_order"
        /\ ~eng.shutdown_requested_
        /\ check_order(rm, pm, ret'.order,
                       IF ret'.order.type = "MARKET" \/ ret'.order.price = Zero
                       THEN R(1) ELSE ret'.order.price, now).result.allowed
        /\ \/ select_provider_for_order(eng, ret'.order) = ""
           \/ select_provider_for_order(eng, ret'.order) \notin eng.providers_
           \/ ~mb.connected_) =>
          /\ ret'.result.status = "REJECTED"
          /\ ret'.result.order_id = ret'.order.order_id
          /\ mb' = mb
          /\ ret'.order.order_id \notin DOMAIN eng'.active_orders_
          /\ ret'.order.order_id \notin DOMAIN rm'.reserved_by_order_
      ]_vars

\* An approved order was submitted to an engine whose broker is disconnected.
C28_Witness ==
    /\ ret.op = "submit_order"
    /\ ret.result.status = "REJECTED"
    /\ ret.result.reason = <<"Provider not connected: ", "MockBroker">>
    /\ rm.orders_submitted_today_ > 0
    /\ ~mb.connected_

\* C29: a submit_order that reaches a connected provider returns either the
\* provider's acknowledgement, with the order stored by the broker, active
\* and reserved, or Error (the provider raised) or Rejected (the provider
\* rejected), with the order not in the active map and holding no
\* reservation.
C29_ProviderFailure ==
    [][(/\ nops' # nops
        /\ ret'.op = "submit_order"
        /\ ReachesProvider(ret'.order)
        /\ mb.connected_) =>
          LET id == ret'.order.order_id
          IN  \/ /\ ret'.result.status = "ACKNOWLEDGED"
                 /\ id \in DOMAIN mb'.orders_
                 /\ id \in DOMAIN eng'.active_orders_
                 /\ id \in DOMAIN rm'.reserved_by_order_
              \/ /\ \/ /\ ret'.result.status = "ERROR"
                       /\ ret'.result.reason = <<"Provider exception: ">>
                    \/ /\ ret'.result.status = "REJECTED"
                       /\ ret'.result.reason = <<"Random rejection (simulated)">>
                 /\ ret'.result.order_id = id
                 /\ mb' = mb
                 /\ id \notin DOMAIN eng'.active_orders_
                 /\ id \notin DOMAIN eng'.completed_orders_
                 /\ id \notin DOMAIN rm'.reserved_by_order_
                 /\ rm'.orders_rejected_today_ = rm.orders_rejected_today_ + 1
      ]_vars

\* The provider raised on the submit of one order and rejected another.
C29_Witness ==
    /\ ret.op = "submit_order"
    /\ ret.result.status = "ERROR"
    /\ \E i \in DOMAIN order_cb :
          /\ order_cb[i].status = "REJECTED"
          /\ order_cb[i].reason = <<"Random rejection (simulated)">>
    /\ rm.reserved_by_order_ = <<>>
    /\ eng.active_orders_ = <<>>

\* C30: when the adapter raises during cancel_order or modify_order of an
\* active order, the order is reported Error and is terminal: it has left
\* the active map for the completed one and holds no reservation.
C30_AdapterErrorTerminal ==
    [][(/\ nops' # nops
        /\ ret'.op \in {"cancel_order", "modify_order"}
        /\ ret'.result.status = "ERROR"
        /\ ret'.result.order_id \in DOMAIN eng.active_orders_) =>
          /\ ret'.result.order_id \notin DOMAIN eng'.active_orders_
          /\ ret'.result.order_id \in DOMAIN eng'.completed_orders_
          /\ ret'.result.order_id \notin DOMAIN rm'.reserved_by_order_
      ]_vars

\* C37: in every state daily_high_pnl_ is at least daily_pnl_.
C37_HighAboveDaily == RGe(rm.daily_high_pnl_, rm.daily_pnl_)

\* C35: every entry of completed_orders_ has a terminal status, so that
\* get_order_status of a cancelled order reports Cancelled, and no entry of
\* active_orders_ has a terminal status.
C35_HistoryIsTerminal ==
    /\ \A o \in DOMAIN eng.completed_orders_ :
          eng.completed_orders_[o].current_status.status \in TerminalStatus
    /\ \A o \in DOMAIN eng.active_orders_ :
          eng.active_orders_[o].current_status.status \notin TerminalStatus

\* C38: orders_rejected_today_ counts the submit_order calls that reached the
\* risk check and returned Rejected or Error, each once: such a call adds one
\* to it and no other call of the engine changes it.
C38_RejectedCountedOnce ==
    [][nops' # nops =>
          rm'.orders_rejected_today_ =
              rm.orders_rejected_today_
              + (IF /\ ret'.op = "submit_order"
                    /\ ~eng.shutdown_requested_
                    /\ ret'.result.status \in {"REJECTED", "ERROR"}
                 THEN 1 ELSE 0)]_vars

\* C39: with unique order ids, stats_.active_orders is the number of entries
\* of active_orders_, and no order id is in both active_orders_ and
\* completed_orders_.
C39_ActiveCount ==
    /\ eng.stats_.active_orders = Cardinality(DOMAIN eng.active_orders_)
    /\ DOMAIN eng.active_orders_ \cap DOMAIN eng.completed_orders_ = {}

\* One order is active while another has been finalized.
C39_Witness ==
    /\ eng.stats_.active_orders = 1
    /\ Cardinality(DOMAIN eng.active_orders_) = 1
    /\ Cardinality(DOMAIN eng.completed_orders_) = 1
    /\ eng.stats_.total_orders_submitted = 2

\* C31: when a registered callback throws, the handler still calls the
\* remaining callbacks with the event and returns normally: no exception of
\* a callback leaves submit_order, cancel_order, on_fill or on_order_update,
\* and every event of these handlers reaches the second callback.
C31_CallbackExceptionsContained ==
    [][/\ "escaped" \in DOMAIN ret' => ~ret'.escaped
       /\ ret'.op = "on_fill" => Len(fill_cb') = Len(fill_cb) + 1
       /\ (nops' # nops /\ ret'.op = "on_order_update")
              => Len(order_cb') = Len(order_cb) + 1
       /\ (/\ nops' # nops
           /\ ret'.op = "submit_order"
           /\ ReachesProvider(ret'.order)
           /\ mb.connected_) => order_cb' = Append(order_cb, ret'.result)
       /\ (/\ nops' # nops
           /\ ret'.op = "cancel_order"
           /\ ret'.result.order_id \in DOMAIN eng.active_orders_)
              => order_cb' = Append(order_cb, ret'.result)
      ]_vars

\* C32: when a fill of an order is delivered to the fill callbacks, the
\* order callbacks have already been given the acknowledgement of its submit;
\* and the fills of an order are delivered in the order the broker emitted
\* them: each is appended as the broker books it, so that the fills
\* delivered for the order add up to what the broker has filled.
C32_CausalDelivery ==
    [][ret'.op = "on_fill" =>
          \/ ret'.escaped
          \/ LET fill == fill_cb'[Len(fill_cb')]
                 mine == {i \in DOMAIN fill_cb' :
                              fill_cb'[i].order_id = fill.order_id}
             IN  /\ fill_cb' = Append(fill_cb, fill)
                 /\ \E i \in DOMAIN order_cb :
                       /\ order_cb[i].order_id = fill.order_id
                       /\ order_cb[i].status = "ACKNOWLEDGED"
                       /\ order_cb[i].reason = <<"Order accepted by mock broker">>
                 /\ mb'.orders_[fill.order_id].filled_qty
                        = RSum([i \in mine |-> fill_cb'[i].quantity], mine)
                 /\ mb'.orders_[fill.order_id].filled_qty
                        = RAdd(mb.orders_[fill.order_id].filled_qty, fill.quantity)
      ]_vars

\* Both partial fills of an acknowledged order have been delivered.
C32_Witness ==
    /\ ret.op = "on_fill"
    /\ ~ret.escaped
    /\ Len(fill_cb) = 2
    /\ fill_cb[1].order_id = fill_cb[2].order_id
    /\ \E i \in DOMAIN order_cb :
          order_cb[i].order_id = fill_cb[1].order_id /\ order_cb[i].status = "ACKNOWLEDGED"

\* C33: with partial_fill_count = N, the k-th fill delivered for an
\* acknowledged order that was neither cancelled nor reported on by the
\* adapter leaves the order PartiallyFilled and active when k < N, and Filled
\* when k = N, the N fills adding up to the quantity of the request; no
\* order gets more than N fills.
C33_PartialFillSequence ==
    [][(/\ ret'.op = "on_fill"
        /\ ~ret'.escaped
        /\ \A i \in DOMAIN order_cb :
              order_cb[i].order_id = fill_cb'[Len(fill_cb')].order_id
                  => order_cb[i].reason = <<"Order accepted by mock broker">>) =>
          LET o == fill_cb'[Len(fill_cb')].order_id
              mine == {i \in DOMAIN fill_cb' : fill_cb'[i].order_id = o}
              N == IF broker_config.enable_partial_fills
                   THEN broker_config.partial_fill_count ELSE 1
          IN  IF Cardinality(mine) < N
              THEN /\ o \in DOMAIN eng'.active_orders_
                   /\ eng'.active_orders_[o].current_status.status = "PARTIALLY_FILLED"
              ELSE /\ Cardinality(mine) = N
                   /\ o \in DOMAIN eng'.completed_orders_
                   /\ eng'.completed_orders_[o].current_status.status = "FILLED"
                   /\ RSum([i \in mine |-> fill_cb'[i].quantity], mine)
                          = eng'.completed_orders_[o].request.quantity
      ]_vars

\* C36: as long as no order has been modified, the absolute quantity of
\* every position is at most max_position_size.
C36_PositionWithinLimit ==
    (\A o \in DOMAIN mb.orders_ :
        /\ o \in DOMAIN eng.active_orders_
              => eng.active_orders_[o].request.quantity = mb.orders_[o].request.quantity
        /\ o \in DOMAIN eng.completed_orders_
              => eng.completed_orders_[o].request.quantity
                     = mb.orders_[o].request.quantity)
    => \A i \in DOMAIN pm.positions_ :
          RLe(RAbs(pm.positions_[i].quantity), limits.max_position_size)

(***************************************************************************)
(* The history of completed orders, checked under HistSpec                 *)
(***************************************************************************)
\* C34: the history never holds more than 1000 entries, and an order that a
\* step finalizes is afterwards found by get_order_status.
C34_HistoryKeepsLatest ==
    [][/\ Cardinality(DOMAIN eng'.completed_orders_) <= HistoryCap
       /\ \A o \in DOMAIN eng.active_orders_ \ DOMAIN eng'.active_orders_ :
              get_order_status(eng', o) # <<>>
      ]_vars

(***************************************************************************)
(* The fills of acknowledged orders, checked under LiveSpec                *)
(***************************************************************************)
\* C40: every order acknowledged by a connected MockBroker is eventually
\* filled for its whole quantity, also when the broker was disconnected and
\* connected again before the submit.  The fills of an order are generated by
\* its own simulate_fill thread and by nothing else, so every submit_order
\* that the broker acknowledges leaves a fill thread for the order, about to
\* run.
C40_AcknowledgedIsFilled ==
    [][(/\ nops' # nops
        /\ ret'.op = "submit_order"
        /\ ret'.result.status = "ACKNOWLEDGED"
        /\ ret'.order.order_id \in DOMAIN mb'.orders_
        /\ mb.connected_) =>
          /\ ret'.order.order_id \in DOMAIN mb'.fill_threads_
          /\ mb'.fill_threads_[ret'.order.order_id].pc = "sleeping"
      ]_vars

=============================================================================
